---- MODULE Spec2Model ----
(***************************************************************************)
(* Model of the KiCadFiles S-expression binding engine                     *)
(* (src/kicadfiles/base_element.py): ParseCursor, the field classifier,    *)
(* KiCadObject.from_sexpr / to_sexpr and the wrapper types, run on record  *)
(* declarations taken from src/kicadfiles/*.py.                            *)
(*                                                                         *)
(* Values.  Every Python value is a record tagged by k:                    *)
(*   none  - None                                                          *)
(*   num   - an int or float, n = ten times its value (15 is 1.5); Python   *)
(*           compares 1 == 1.0, so int and float are not told apart        *)
(*   inf   - the float infinity                                            *)
(*   str   - a str or Symbol atom                                          *)
(*   bool  - a bool                                                        *)
(*   list  - a list (an S-expression list, or a list-valued field)         *)
(*   obj   - a KiCadObject instance: its class and its field values        *)
(*   prim  - a KiCadPrimitive instance (KiCadStr / KiCadInt / KiCadFloat)  *)
(*   flag  - an OptionalFlag instance                                      *)
(*   sflag - an OptionalSimpleFlag instance                                *)
(*   enum  - a member of an Enum class: its class and its value (the tag)  *)
(***************************************************************************)
EXTENDS Integers, Sequences, FiniteSets, TLC

NoneV == [k |-> "none"]
Num(n) == [k |-> "num", n |-> n]
Inf == [k |-> "inf"]
Str(s) == [k |-> "str", s |-> s]
Bool(b) == [k |-> "bool", b |-> b]
Lst(e) == [k |-> "list", e |-> e]
Obj(c, f) == [k |-> "obj", cls |-> c, f |-> f]
Prim(c, t, v, r) == [k |-> "prim", cls |-> c, token |-> t, value |-> v, required |-> r]
Flag(t, v, r) == [k |-> "flag", token |-> t, token_value |-> v, required |-> r]
SFlag(t, r) == [k |-> "sflag", token |-> t, required |-> r]
EnumMember(c, tag) == [k |-> "enum", cls |-> c, value |-> tag]

IsList(v) == v.k = "list"
IsNone(v) == v.k = "none"

\* Sequence helpers.
Range(s) == {s[i] : i \in DOMAIN s}
Contains(s, x) == \E i \in DOMAIN s : s[i] = x

(***************************************************************************)
(* Python's built-in conversions on atoms.                                 *)
(***************************************************************************)

\* str(number): the text of the numbers the model uses.
NumStr(n) ==
    CASE n = 0 -> "0"
      [] n = 10 -> "1"
      [] n = 15 -> "1.5"
      [] n = 16 -> "1.6"
      [] n = 20 -> "2"
      [] OTHER -> "<num>"

\* str(value)
PyStr(v) ==
    CASE v.k = "str" -> v.s
      [] v.k = "num" -> NumStr(v.n)
      [] v.k = "inf" -> "inf"
      [] v.k = "bool" -> IF v.b THEN "True" ELSE "False"
      [] v.k = "none" -> "None"
      [] OTHER -> "<repr>"

\* A conversion either returns a value or raises: ValueError / TypeError
\* for a value the type has no reading of, OverflowError for int(inf).
ConvOk(v) == [ok |-> TRUE, val |-> v, exc |-> ""]
ConvFail == [ok |-> FALSE, val |-> NoneV, exc |-> "ValueError"]
ConvOverflow == [ok |-> FALSE, val |-> NoneV, exc |-> "OverflowError"]

\* except (ValueError, TypeError): the exceptions the engine's handlers catch.
Caught(exc) == exc # "OverflowError"

\* int(value): an int as is, a float truncated, a str parsed as an integer
\* literal; anything else raises.
PyInt(v) ==
    CASE v.k = "num" -> ConvOk(Num((v.n \div 10) * 10))
      [] v.k = "inf" -> ConvOverflow
      [] v.k = "str" ->
            IF v.s = "0" THEN ConvOk(Num(0))
            ELSE IF v.s = "1" THEN ConvOk(Num(10))
            ELSE IF v.s = "2" THEN ConvOk(Num(20))
            ELSE ConvFail
      [] OTHER -> ConvFail

\* float(value): a number as is, a str parsed as a decimal literal.
PyFloat(v) ==
    CASE v.k \in {"num", "inf"} -> ConvOk(v)
      [] v.k = "str" ->
            IF v.s = "0" THEN ConvOk(Num(0))
            ELSE IF v.s = "1" THEN ConvOk(Num(10))
            ELSE IF v.s = "1.5" THEN ConvOk(Num(15))
            ELSE IF v.s = "1.6" THEN ConvOk(Num(16))
            ELSE IF v.s = "2" THEN ConvOk(Num(20))
            ELSE ConvFail
      [] OTHER -> ConvFail

\* str(value).lower() in ("yes", "true", "1")
PyTruthy(v) == PyStr(v) \in {"yes", "true", "1", "Yes", "YES", "True", "TRUE"}

\* _convert_to_type(value, target_type); no class that is decoded declares an
\* Enum field.
ConvertToType(value, target) ==
    CASE target = "int" -> PyInt(value)
      [] target = "float" -> PyFloat(value)
      [] target = "bool" -> ConvOk(Bool(PyTruthy(value)))
      [] target = "str" -> ConvOk(Str(PyStr(value)))
      [] OTHER -> ConvOk(value)

(***************************************************************************)
(* The record declarations the engine is run on.                           *)
(***************************************************************************)

STRICT == "strict"
SILENT == "silent"
FAILSAFE == "failsafe"
ParseStrictness == {STRICT, SILENT, FAILSAFE}

ScalarTypes == {"int", "float", "bool", "str"}
PrimitiveClasses == {"KiCadStr", "KiCadInt", "KiCadFloat"}

\* KiCadStr.base_type, KiCadInt.base_type, KiCadFloat.base_type
BaseType(c) ==
    CASE c = "KiCadStr" -> "str"
      [] c = "KiCadInt" -> "int"
      [] c = "KiCadFloat" -> "float"
      [] OTHER -> "object"

\* A dataclass field: its name, the element type of its annotation, whether
\* the annotation is Optional[...] and List[...], whether its metadata says
\* "required": False, whether it has a default_factory, and its default (for
\* a default_factory, the instance the factory returns; DefaultOfClass(c)
\* stands for the factory lambda: c()).
Field(n, t, opt, lst, metaReq, fac, d) ==
    [name |-> n, type |-> t, nullable |-> opt, list |-> lst,
     meta_required |-> metaReq, has_factory |-> fac, dflt |-> d]
DefaultOfClass(c) == [k |-> "default_of", cls |-> c]

\* OptionalFlag.create_bool_flag(token): a flag wrapper carrying the token.
create_bool_flag(t) == Flag(t, NoneV, FALSE)

NetFields ==
    << Field("number", "int", FALSE, FALSE, TRUE, FALSE, Num(0)),
       Field("name", "str", FALSE, FALSE, TRUE, FALSE, Str("")) >>

SizeFields ==
    << Field("width", "float", FALSE, FALSE, TRUE, FALSE, Num(0)),
       Field("height", "float", FALSE, FALSE, TRUE, FALSE, Num(0)) >>

FileNameFields == << Field("value", "str", FALSE, FALSE, TRUE, FALSE, Str("")) >>
FileTypeFields == << Field("value", "str", FALSE, FALSE, TRUE, FALSE, Str("")) >>
FileChecksumFields == << Field("value", "str", FALSE, FALSE, TRUE, FALSE, Str("")) >>
FileDataFields == << Field("lines", "str", FALSE, TRUE, TRUE, TRUE, Lst(<<>>)) >>

EmbeddedFileFields ==
    << Field("name", "FileName", FALSE, FALSE, TRUE, TRUE, DefaultOfClass("FileName")),
       Field("type", "FileType", FALSE, FALSE, TRUE, TRUE, DefaultOfClass("FileType")),
       Field("data", "FileData", TRUE, FALSE, FALSE, FALSE, NoneV),
       Field("checksum", "FileChecksum", TRUE, FALSE, FALSE, FALSE, NoneV) >>

EmbeddedFilesFields ==
    << Field("files", "EmbeddedFile", FALSE, TRUE, TRUE, TRUE, Lst(<<>>)) >>

GeneralFields ==
    << Field("thickness", "KiCadFloat", FALSE, FALSE, TRUE, TRUE,
             Prim("KiCadFloat", "thickness", Num(16), TRUE)),
       Field("legacy_teardrops", "OptionalFlag", TRUE, FALSE, FALSE, TRUE,
             create_bool_flag("legacy_teardrops")) >>

AttrFields ==
    << Field("type", "str", FALSE, FALSE, TRUE, FALSE, Str("")),
       Field("board_only", "OptionalFlag", TRUE, FALSE, FALSE, TRUE,
             create_bool_flag("board_only")),
       Field("exclude_from_pos_files", "OptionalFlag", TRUE, FALSE, FALSE, TRUE,
             create_bool_flag("exclude_from_pos_files")),
       Field("exclude_from_bom", "OptionalFlag", TRUE, FALSE, FALSE, TRUE,
             create_bool_flag("exclude_from_bom")) >>

\* Shape, a record with an Enum field (PadShape; its default is
\* PadShape.CIRCLE).
ShapeFields ==
    << Field("shape", "PadShape", FALSE, FALSE, TRUE, FALSE,
             EnumMember("PadShape", "circle")) >>

\* Footprint, the one class of the sources with legacy token names.  Of its
\* fields the model declares library_link, locked and placed; the Footprint
\* instances of the model have None in every other field.
FootprintFields ==
    << Field("library_link", "str", TRUE, FALSE, FALSE, FALSE, NoneV),
       Field("locked", "OptionalFlag", TRUE, FALSE, FALSE, TRUE,
             create_bool_flag("locked")),
       Field("placed", "OptionalFlag", TRUE, FALSE, FALSE, TRUE,
             create_bool_flag("placed")) >>

\* NamedNet, a record type that extends the record type Net: a dataclass
\* inherits the fields of its base and adds its own after them.
NamedNetFields ==
    NetFields \o << Field("comment", "str", FALSE, FALSE, TRUE, FALSE, Str("")) >>

\* The record type a record type extends, KiCadObject for all but NamedNet.
DerivedClasses == {"NamedNet"}
BaseClass(c) == IF c = "NamedNet" THEN "Net" ELSE "KiCadObject"

\* Samples, a record type with a list field whose element type, KiCadInt,
\* has no token of its own, declared between two named wrapper fields, the
\* second of them optional.
SamplesFields ==
    << Field("label", "KiCadStr", FALSE, FALSE, TRUE, TRUE,
             Prim("KiCadStr", "label", Str(""), TRUE)),
       Field("values", "KiCadInt", FALSE, TRUE, TRUE, TRUE, Lst(<< >>)),
       Field("name", "KiCadStr", TRUE, FALSE, FALSE, TRUE,
             Prim("KiCadStr", "name", Str(""), FALSE)) >>

\* Marked, a record type with two bare marker-flag fields (both absent by
\* default) and a private field, declared between two scalar fields.
MarkedFields ==
    << Field("kind", "str", FALSE, FALSE, TRUE, FALSE, Str("")),
       Field("_note", "str", FALSE, FALSE, TRUE, FALSE, Str("")),
       Field("locked", "OptionalSimpleFlag", TRUE, FALSE, FALSE, FALSE, NoneV),
       Field("hidden", "OptionalSimpleFlag", TRUE, FALSE, FALSE, FALSE, NoneV),
       Field("size", "float", FALSE, FALSE, TRUE, FALSE, Num(0)) >>

\* The Enum classes and the values of their members.
EnumClasses == {"PadShape"}
EnumValues(c) == IF c = "PadShape" THEN {"circle", "rect"} ELSE {}

\* The classes that are decoded and encoded; Footprint is only ever decoded
\* from terms its token check rejects, and Shape and Footprint are encoded.
ObjectClasses ==
    {"Net", "Size", "FileName", "FileType", "FileChecksum", "FileData",
     "EmbeddedFile", "EmbeddedFiles", "General", "Attr"}
GateOnlyClasses == {"Footprint"}

\* fields(cls)
Fields(c) ==
    CASE c = "Net" -> NetFields
      [] c = "Size" -> SizeFields
      [] c = "FileName" -> FileNameFields
      [] c = "FileType" -> FileTypeFields
      [] c = "FileChecksum" -> FileChecksumFields
      [] c = "FileData" -> FileDataFields
      [] c = "EmbeddedFile" -> EmbeddedFileFields
      [] c = "EmbeddedFiles" -> EmbeddedFilesFields
      [] c = "General" -> GeneralFields
      [] c = "Attr" -> AttrFields
      [] c = "Shape" -> ShapeFields
      [] c = "Footprint" -> FootprintFields
      [] c = "NamedNet" -> NamedNetFields
      [] c = "Samples" -> SamplesFields
      [] c = "Marked" -> MarkedFields
      [] OTHER -> << >>

\* cls.__token_name__
TokenName(c) ==
    CASE c = "Net" -> "net"
      [] c = "Size" -> "size"
      [] c = "FileName" -> "name"
      [] c = "FileType" -> "type"
      [] c = "FileChecksum" -> "checksum"
      [] c = "FileData" -> "data"
      [] c = "EmbeddedFile" -> "file"
      [] c = "EmbeddedFiles" -> "embedded_files"
      [] c = "General" -> "general"
      [] c = "Attr" -> "attr"
      [] c = "Footprint" -> "footprint"
      [] c = "Shape" -> "shape"
      [] c = "Samples" -> "samples"
      [] c = "Marked" -> "marked"
      [] OTHER -> ""

\* cls.__legacy_token_names__
LegacyTokenNames(c) == IF c = "Footprint" THEN << "module" >> ELSE << >>

\* issubclass(t, SExpressionBase)
IsSExpressionBase(t) ==
    t \in ObjectClasses \cup PrimitiveClasses \cup {"OptionalFlag", "OptionalSimpleFlag"}

(***************************************************************************)
(* Field classifier: KiCadObject._classify_field / _classify_fields.       *)
(***************************************************************************)

PRIMITIVE == "primitive"
SEXPR_BASE == "sexpr_base"

\* FieldInfo; token_name "" stands for None (the code only tests its truth).
FieldInfo(n, ft, it, opt, lst, tok, pos) ==
    [name |-> n, field_type |-> ft, inner_type |-> it, is_optional |-> opt,
     is_list |-> lst, token_name |-> tok, position_index |-> pos]

\* hasattr(default_instance, "required")
HasRequiredAttr(v) == v.k \in {"prim", "flag", "sflag"}

\* OptionalSimpleFlag.__token_name__, a class attribute: declared empty, and
\* set by OptionalSimpleFlag.__post_init__ to the token of the first instance
\* that is constructed with a token.
VARIABLE simple_flag_token

\* OptionalSimpleFlag.__post_init__: the class attribute after an instance
\* with token t was constructed while the attribute was class_token.
PostInit(class_token, t) == IF t # "" /\ class_token = "" THEN t ELSE class_token

\* getattr(t, "__token_name__"): the class attribute.  The other wrapper
\* classes declare it empty.
ClassTokenName(t) ==
    IF t \in ObjectClasses \cup GateOnlyClasses THEN TokenName(t)
    ELSE IF t = "OptionalSimpleFlag" THEN simple_flag_token
    ELSE ""

ClassifyField(d, position) ==
    LET is_optional ==
            \/ d.nullable
            \/ ~d.meta_required
            \/ (d.has_factory /\ HasRequiredAttr(d.dflt) /\ ~d.dflt.required)
    IN  IF d.list
        THEN IF IsSExpressionBase(d.type)
             THEN FieldInfo(d.name, SEXPR_BASE, d.type, FALSE, TRUE,
                            ClassTokenName(d.type), position)
             ELSE FieldInfo(d.name, PRIMITIVE, d.type, FALSE, TRUE, "", position)
        ELSE IF IsSExpressionBase(d.type)
        THEN LET token_name ==
                     IF d.type \in PrimitiveClasses \cup {"OptionalFlag"}
                     THEN IF d.has_factory /\ HasRequiredAttr(d.dflt)
                          THEN d.dflt.token ELSE ""
                     ELSE ClassTokenName(d.type)
             IN  FieldInfo(d.name, SEXPR_BASE, d.type, is_optional, FALSE,
                           token_name, position)
        ELSE FieldInfo(d.name, PRIMITIVE, d.type, is_optional, FALSE, "", position)

\* dataclass_field.name.startswith("_")
StartsWithUnderscore(n) == n \in {"_field_info_cache", "_note"}

\* A walk that advances the position counter at every field.
RECURSIVE ClassifyFromCountingFlags(_, _, _, _)
ClassifyFromCountingFlags(decls, i, position_index, field_infos) ==
    IF i > Len(decls) THEN field_infos
    ELSE IF StartsWithUnderscore(decls[i].name)
    THEN ClassifyFromCountingFlags(decls, i + 1, position_index, field_infos)
    ELSE ClassifyFromCountingFlags(decls, i + 1, position_index + 1,
             Append(field_infos, ClassifyField(decls[i], position_index)))

RECURSIVE ClassifyFrom(_, _, _, _)
ClassifyFrom(decls, i, position_index, field_infos) ==
    IF i > Len(decls) THEN field_infos
    ELSE IF StartsWithUnderscore(decls[i].name)
    THEN ClassifyFrom(decls, i + 1, position_index, field_infos)
    ELSE LET field_info == ClassifyField(decls[i], position_index)
             flag == field_info.field_type = SEXPR_BASE
                     /\ field_info.inner_type = "OptionalSimpleFlag"
         IN  ClassifyFrom(decls, i + 1,
                          IF flag THEN position_index ELSE position_index + 1,
                          Append(field_infos, field_info))

ClassifyFields(c) == ClassifyFrom(Fields(c), 1, 0, << >>)

\* The instance cls() and the value a field takes when the constructor is
\* not given it.
RECURSIVE DefaultInstance(_)
DefaultValue(d) == IF d.dflt.k = "default_of" THEN DefaultInstance(d.dflt.cls) ELSE d.dflt
DefaultInstance(c) ==
    LET ds == Fields(c)
    IN  Obj(c, [n \in {ds[i].name : i \in DOMAIN ds} |->
                  DefaultValue(ds[CHOOSE i \in DOMAIN ds : ds[i].name = n])])

\* cls(**parsed_values): the fields given, the defaults for the rest.
Construct(c, parsed_values) ==
    LET dflt == DefaultInstance(c)
    IN  Obj(c, [n \in DOMAIN dflt.f |->
                  IF n \in DOMAIN parsed_values THEN parsed_values[n] ELSE dflt.f[n]])

(***************************************************************************)
(* ParseCursor.  used is parser.used_indices; strictness is the cursor's;   *)
(* warnings counts the logging.warning calls made so far in the decode      *)
(* call; claims (which field took which index of this cursor's list) and    *)
(* reuse (some cursor of the call had an index taken by two fields) record  *)
(* the history of the call.  The diagnostic path is text only and is left   *)
(* out.                                                                     *)
(***************************************************************************)

Elems(v) == IF IsList(v) THEN v.e ELSE << >>

\* levels and entered are history: the strictness of every cursor made so
\* far in the top-level decode, and the number of nested cursors made.
RootCursor(sexpr, strictness) ==
    [sexpr |-> sexpr, used |-> {}, strictness |-> strictness,
     warnings |-> 0, claims |-> {}, reuse |-> FALSE,
     levels |-> {strictness}, entered |-> 0]

\* An enter that gives the nested cursor the default strictness.
EnterWithDefaultStrictness(cursor, sexpr) ==
    [sexpr |-> sexpr, used |-> {}, strictness |-> STRICT,
     warnings |-> cursor.warnings, claims |-> {}, reuse |-> cursor.reuse,
     levels |-> cursor.levels \cup {STRICT}, entered |-> cursor.entered + 1]

\* cursor.enter(sexpr, name): a fresh tracker, the same strictness.
Enter(cursor, sexpr) ==
    [sexpr |-> sexpr, used |-> {}, strictness |-> cursor.strictness,
     warnings |-> cursor.warnings, claims |-> {}, reuse |-> cursor.reuse,
     levels |-> cursor.levels \cup {cursor.strictness},
     entered |-> cursor.entered + 1]

\* Back in the caller after a nested decode that ended with cursor nested.
Leave(cursor, nested) ==
    [cursor EXCEPT !.warnings = nested.warnings, !.reuse = nested.reuse,
                   !.levels = nested.levels, !.entered = nested.entered]

\* parser.mark_used(idx), called while binding the field called name.
MarkUsed(cursor, idx, name) ==
    [cursor EXCEPT !.used = @ \cup {idx},
                   !.claims = @ \cup {<<name, idx>>},
                   !.reuse = @ \/ (\E c \in cursor.claims : c[2] = idx /\ c[1] # name)]

\* What a call hands back: a value, or an exception passing through.
Return(v, cursor) == [raised |-> FALSE, err |-> "", val |-> v, cur |-> cursor]
Raise(e, cursor) == [raised |-> TRUE, err |-> e, val |-> NoneV, cur |-> cursor]

\* log_issue variant that raises under SILENT as well.
LogIssueRaisesUnlessFailsafe(cursor, message) ==
    IF cursor.strictness # FAILSAFE THEN Raise(message, cursor)
    ELSE Return(NoneV, [cursor EXCEPT !.warnings = @ + 1])

\* cursor.log_issue(message): returns None or raises ValueError.
LogIssue(cursor, message) ==
    IF cursor.strictness = STRICT THEN Raise(message, cursor)
    ELSE IF cursor.strictness = FAILSAFE
    THEN Return(NoneV, [cursor EXCEPT !.warnings = @ + 1])
    ELSE Return(NoneV, cursor)

\* cursor._get_value_at_index(index, field_name, type_name, required);
\* sexpr positions are 0-based in the code and 1-based here.
GetValueAtIndex(cursor, index, name, required) ==
    IF index >= Len(Elems(cursor.sexpr))
    THEN IF required THEN LogIssue(cursor, "missing_required") ELSE Return(NoneV, cursor)
    ELSE LET value == Elems(cursor.sexpr)[index + 1]
         IN  IF IsList(value)
             THEN IF required THEN LogIssue(cursor, "expected_scalar_got_list")
                  ELSE Return(NoneV, cursor)
             ELSE Return(value, MarkUsed(cursor, index, name))

\* parse_int / parse_float: a conversion failure that is caught goes through
\* log_issue, any other exception leaves the call.
ParseConverted(cursor, index, name, required, target) ==
    LET got == GetValueAtIndex(cursor, index, name, required)
    IN  IF got.raised \/ IsNone(got.val) THEN got
        ELSE LET c == ConvertToType(got.val, target)
             IN  IF c.ok THEN Return(c.val, got.cur)
                 ELSE IF Caught(c.exc) THEN LogIssue(got.cur, "cannot_convert")
                 ELSE Raise(c.exc, got.cur)

ParseInt(cursor, index, name, required) == ParseConverted(cursor, index, name, required, "int")
ParseFloat(cursor, index, name, required) == ParseConverted(cursor, index, name, required, "float")

\* parse_str / parse_bool: str(value) and the yes/true/1 test never fail.
ParseStr(cursor, index, name, required) ==
    LET got == GetValueAtIndex(cursor, index, name, required)
    IN  IF got.raised \/ IsNone(got.val) THEN got
        ELSE Return(Str(PyStr(got.val)), got.cur)

ParseBool(cursor, index, name, required) ==
    LET got == GetValueAtIndex(cursor, index, name, required)
    IN  IF got.raised \/ IsNone(got.val) THEN got
        ELSE Return(Bool(PyTruthy(got.val)), got.cur)

\* str.upper() on the texts the model uses.
Upper(s) ==
    CASE s \in {"circle", "Circle", "CIRCLE"} -> "CIRCLE"
      [] s \in {"rect", "Rect", "RECT"} -> "RECT"
      [] s = "a" -> "A"
      [] OTHER -> s

\* enum_class[name].value: the value of the member with that name; "" when
\* the class has no such member (KeyError).
EnumValueOfName(c, n) ==
    IF c = "PadShape" /\ n = "CIRCLE" THEN "circle"
    ELSE IF c = "PadShape" /\ n = "RECT" THEN "rect"
    ELSE ""

\* parse_enum: the member with that value, else the member whose name is the
\* text in upper case, else log_issue.
ParseEnum(cursor, index, name, enum_class, required) ==
    LET got == GetValueAtIndex(cursor, index, name, required)
    IN  IF got.raised \/ IsNone(got.val) THEN got
        ELSE IF PyStr(got.val) \in EnumValues(enum_class)
        THEN Return(EnumMember(enum_class, PyStr(got.val)), got.cur)
        ELSE IF EnumValueOfName(enum_class, Upper(PyStr(got.val))) # ""
        THEN Return(EnumMember(enum_class,
                               EnumValueOfName(enum_class, Upper(PyStr(got.val)))),
                    got.cur)
        ELSE LogIssue(got.cur, "invalid_enum_value")

\* The element find_token(token_name) stops at: the first one after the head
\* that is a non-empty list with that head or a str atom equal to it; 0 when
\* there is none.
TokenMatches(item, token_name) ==
    \/ IsList(item) /\ Len(item.e) > 0 /\ PyStr(item.e[1]) = token_name
    \/ item.k = "str" /\ item.s = token_name

\* A scan that keeps the last match.
FindTokenIndexLast(cursor, token_name) ==
    LET es == Elems(cursor.sexpr)
        hits == {i \in 1..(Len(es) - 1) : TokenMatches(es[i + 1], token_name)}
    IN  IF hits = {} THEN 0 ELSE CHOOSE i \in hits : \A j \in hits : i >= j

FindTokenIndex(cursor, token_name) ==
    LET es == Elems(cursor.sexpr)
        hits == {i \in 1..(Len(es) - 1) : TokenMatches(es[i + 1], token_name)}
    IN  IF hits = {} THEN 0 ELSE CHOOSE i \in hits : \A j \in hits : i <= j

\* cursor.find_token(token_name), called while binding the field called name:
\* val is the list found (an atom wrapped in a list), or the empty list.
FindToken(cursor, token_name, name) ==
    LET idx == FindTokenIndex(cursor, token_name)
    IN  IF idx = 0 THEN Return(Lst(<< >>), cursor)
        ELSE LET item == Elems(cursor.sexpr)[idx + 1]
             IN  Return(IF IsList(item) THEN item ELSE Lst(<< item >>),
                        MarkUsed(cursor, idx, name))

(***************************************************************************)
(* The wrapper types' from_sexpr.                                          *)
(***************************************************************************)

\* A wrapper decode that, outside STRICT, substitutes the zero of the base
\* type for a value that does not convert.
PrimitiveFromSexprSubstituting(c, sexpr, cursor) ==
    LET has_value == IF IsList(sexpr) THEN Len(sexpr.e) >= 2 ELSE TRUE
        token == IF IsList(sexpr) THEN PyStr(sexpr.e[1]) ELSE ""
        value == IF IsList(sexpr) THEN sexpr.e[2] ELSE sexpr
    IN  IF ~has_value THEN Return(NoneV, cursor)
        ELSE LET converted == ConvertToType(value, BaseType(c))
             IN  IF converted.ok
                 THEN Return(Prim(c, token, converted.val, TRUE), cursor)
                 ELSE IF ~Caught(converted.exc) THEN Raise(converted.exc, cursor)
                 ELSE IF cursor.strictness = STRICT THEN Return(NoneV, cursor)
                 ELSE Return(Prim(c, token, Num(0), TRUE), cursor)

\* KiCadPrimitive.from_sexpr (cls is KiCadStr, KiCadInt or KiCadFloat): a
\* conversion error is caught and None returned.
PrimitiveFromSexpr(c, sexpr, cursor) ==
    LET has_value == IF IsList(sexpr) THEN Len(sexpr.e) >= 2 ELSE TRUE
        token == IF IsList(sexpr) THEN PyStr(sexpr.e[1]) ELSE ""
        value == IF IsList(sexpr) THEN sexpr.e[2] ELSE sexpr
    IN  IF ~has_value THEN Return(NoneV, cursor)
        ELSE LET converted == ConvertToType(value, BaseType(c))
             IN  IF converted.ok
                 THEN Return(Prim(c, token, converted.val, TRUE), cursor)
                 ELSE IF Caught(converted.exc) THEN Return(NoneV, cursor)
                 ELSE Raise(converted.exc, cursor)

\* OptionalFlag.from_sexpr
OptionalFlagFromSexpr(sexpr, cursor) ==
    IF IsList(sexpr) /\ Len(sexpr.e) >= 1
    THEN Return(Flag(PyStr(sexpr.e[1]),
                     IF Len(sexpr.e) > 1 THEN Str(PyStr(sexpr.e[2])) ELSE NoneV,
                     FALSE), cursor)
    ELSE IF sexpr.k = "str" THEN Return(Flag(sexpr.s, NoneV, FALSE), cursor)
    ELSE Return(NoneV, cursor)

\* OptionalSimpleFlag.from_sexpr
OptionalSimpleFlagFromSexpr(sexpr, cursor) ==
    IF sexpr.k = "str" THEN Return(SFlag(sexpr.s, FALSE), cursor)
    ELSE Return(NoneV, cursor)

(***************************************************************************)
(* KiCadObject.from_sexpr and the field parsers it delegates to.           *)
(***************************************************************************)

\* token = str(cursor.sexpr[0]) if cursor.sexpr else "empty".  On an atom
\* (a nested decode handed a scalar) the subscript yields a character or
\* raises TypeError; neither is a token of the schema.
HeadToken(cursor) ==
    IF IsList(cursor.sexpr)
    THEN IF Len(cursor.sexpr.e) > 0 THEN PyStr(cursor.sexpr.e[1]) ELSE "empty"
    ELSE "<not a list>"

\* valid_tokens = [cls.__token_name__] + (cls.__legacy_token_names__ or [])
ValidTokens(c) == << TokenName(c) >> \o LegacyTokenNames(c)

\* Token check variant that lets SILENT through.
TokenMismatchUnlessSilent(c, cursor) ==
    ~Contains(ValidTokens(c), HeadToken(cursor)) /\ cursor.strictness # SILENT

\* The token check of from_sexpr: token not in valid_tokens.
TokenMismatch(c, cursor) == ~Contains(ValidTokens(c), HeadToken(cursor))

\* parsed_values[field_info.name] = value
Bind(parsed_values, name, value) ==
    [n \in DOMAIN parsed_values \cup {name} |->
        IF n = name THEN value ELSE parsed_values[n]]

\* KiCadObject._parse_primitive_field
ParsePrimitiveField(field_info, cursor) ==
    LET index == field_info.position_index + 1
        required == ~field_info.is_optional
        named == FindToken(cursor, field_info.token_name, field_info.name)
        positional(cur) ==
            CASE field_info.inner_type = "int" -> ParseInt(cur, index, field_info.name, required)
              [] field_info.inner_type = "float" -> ParseFloat(cur, index, field_info.name, required)
              [] field_info.inner_type = "bool" -> ParseBool(cur, index, field_info.name, required)
              [] OTHER -> ParseStr(cur, index, field_info.name, required)
    IN  IF field_info.token_name # ""
        THEN IF Len(named.val.e) >= 2
             THEN LET c == ConvertToType(named.val.e[2], field_info.inner_type)
                  IN  IF c.ok THEN Return(c.val, named.cur)
                      ELSE Raise(c.exc, named.cur)
             ELSE IF Len(named.val.e) = 0
             THEN LET issue == IF required
                               THEN LogIssue(named.cur, "required_token_not_found")
                               ELSE Return(NoneV, named.cur)
                  IN  issue
             ELSE positional(named.cur)
        ELSE positional(cursor)

RECURSIVE FromSexpr(_, _, _)

\* The result r of a nested from_sexpr, seen from the caller: the caller's
\* cursor again, with what the nested call logged.
Returned(caller, r) == [r EXCEPT !.cur = Leave(caller, r.cur)]

\* _parse_sexpr_base_field, named field, after find_token returned named.
NamedSexprBaseField(field_info, cursor, named) ==
    IF Len(named.val.e) > 0
    THEN Returned(named.cur,
                  FromSexpr(field_info.inner_type, named.val,
                            Enter(named.cur, named.val)))
    ELSE IF ~field_info.is_optional
    THEN LogIssue(cursor, "required_token_not_found")
    ELSE Return(NoneV, cursor)

\* _parse_sexpr_base_field, positional field: the except clause around the
\* nested from_sexpr, whose result is r.
ExceptNested(field_info, r) ==
    IF r.raised /\ Caught(r.err)
    THEN IF ~field_info.is_optional
         THEN LogIssue(r.cur, "failed_to_parse")
         ELSE Return(NoneV, r.cur)
    ELSE r

\* KiCadObject._parse_sexpr_base_field
ParseSexprBaseField(field_info, cursor) ==
    IF field_info.token_name # ""
    THEN NamedSexprBaseField(field_info, cursor,
             FindToken(cursor, field_info.token_name, field_info.name))
    ELSE IF field_info.position_index + 1 >= Len(Elems(cursor.sexpr))
    THEN IF ~field_info.is_optional
         THEN LogIssue(cursor, "required_field_not_found")
         ELSE Return(NoneV, cursor)
    ELSE ExceptNested(field_info,
             Returned(MarkUsed(cursor, field_info.position_index + 1, field_info.name),
                      FromSexpr(field_info.inner_type,
                                Elems(cursor.sexpr)[field_info.position_index + 2],
                                Enter(MarkUsed(cursor, field_info.position_index + 1,
                                               field_info.name),
                                      Elems(cursor.sexpr)[field_info.position_index + 2]))))

\* _parse_list_field, elements with a token: every list after the head whose
\* head is the token is marked used and decoded; an exception passes through.
RECURSIVE ParseTokenList(_, _, _, _)

\* Loop body variant that returns at the first match.
TokenListFirstOnly(field_info, idx, result, r) ==
    IF r.raised THEN r
    ELSE Return(Lst(IF IsNone(r.val) THEN result ELSE Append(result, r.val)), r.cur)

\* The loop body after the nested from_sexpr returned r: append and go on.
TokenListNext(field_info, idx, result, r) ==
    IF r.raised THEN r
    ELSE ParseTokenList(field_info, r.cur, idx + 1,
                        IF IsNone(r.val) THEN result ELSE Append(result, r.val))

ParseTokenList(field_info, cursor, idx, result) ==
    IF idx >= Len(Elems(cursor.sexpr)) THEN Return(Lst(result), cursor)
    ELSE IF /\ IsList(Elems(cursor.sexpr)[idx + 1])
            /\ Len(Elems(cursor.sexpr)[idx + 1].e) > 0
            /\ PyStr(Elems(cursor.sexpr)[idx + 1].e[1]) = field_info.token_name
    THEN TokenListNext(field_info, idx, result,
             Returned(MarkUsed(cursor, idx, field_info.name),
                      FromSexpr(field_info.inner_type, Elems(cursor.sexpr)[idx + 1],
                                Enter(MarkUsed(cursor, idx, field_info.name),
                                      Elems(cursor.sexpr)[idx + 1]))))
    ELSE ParseTokenList(field_info, cursor, idx + 1, result)

\* _parse_list_field, elements without a token: every unused list after the
\* head is tried; one that decodes is marked used, one that raises
\* ValueError or TypeError is skipped.
RECURSIVE ParseAnyList(_, _, _, _)

\* The loop body after the nested from_sexpr returned r.
AnyListNext(field_info, idx, result, r) ==
    IF r.raised /\ ~Caught(r.err) THEN r
    ELSE IF r.raised \/ IsNone(r.val)
    THEN ParseAnyList(field_info, r.cur, idx + 1, result)
    ELSE ParseAnyList(field_info, MarkUsed(r.cur, idx, field_info.name),
                      idx + 1, Append(result, r.val))

ParseAnyList(field_info, cursor, idx, result) ==
    IF idx >= Len(Elems(cursor.sexpr)) THEN Return(Lst(result), cursor)
    ELSE IF IsList(Elems(cursor.sexpr)[idx + 1]) /\ idx \notin cursor.used
    THEN AnyListNext(field_info, idx, result,
             Returned(cursor,
                      FromSexpr(field_info.inner_type, Elems(cursor.sexpr)[idx + 1],
                                Enter(cursor, Elems(cursor.sexpr)[idx + 1]))))
    ELSE ParseAnyList(field_info, cursor, idx + 1, result)

\* KiCadObject._parse_list_field
ParseListField(field_info, cursor) ==
    IF field_info.field_type = SEXPR_BASE /\ field_info.token_name # ""
    THEN ParseTokenList(field_info, cursor, 1, << >>)
    ELSE IF field_info.field_type = SEXPR_BASE
    THEN ParseAnyList(field_info, cursor, 1, << >>)
    ELSE Return(Lst(<< >>), cursor)

\* KiCadObject._parse_field
ParseField(field_info, cursor) ==
    IF field_info.is_list THEN ParseListField(field_info, cursor)
    ELSE IF field_info.field_type = PRIMITIVE THEN ParsePrimitiveField(field_info, cursor)
    ELSE ParseSexprBaseField(field_info, cursor)

\* The field loop of from_sexpr: a value that is not None is kept.
RECURSIVE ParseFields(_, _, _, _)

\* The loop body after _parse_field returned r.
FieldsNext(field_infos, i, parsed_values, r) ==
    IF r.raised THEN r
    ELSE ParseFields(field_infos, i + 1, r.cur,
                     IF IsNone(r.val) THEN parsed_values
                     ELSE Bind(parsed_values, field_infos[i].name, r.val))

ParseFields(field_infos, i, cursor, parsed_values) ==
    IF i > Len(field_infos) THEN Return(parsed_values, cursor)
    ELSE FieldsNext(field_infos, i, parsed_values, ParseField(field_infos[i], cursor))

\* return cls(**parsed_values), r being what the field loop ended with.
Instantiate(c, r) == IF r.raised THEN r ELSE Return(Construct(c, r.val), r.cur)

\* KiCadObject.from_sexpr of class c with the cursor given.
ObjectFromSexpr(c, cursor) ==
    IF TokenMismatch(c, cursor) THEN Raise("token_mismatch", cursor)
    ELSE Instantiate(c, ParseFields(ClassifyFields(c), 1, cursor, << >>))

\* field_info.inner_type.from_sexpr(sexpr, cursor.strictness, cursor)
FromSexpr(inner_type, sexpr, cursor) ==
    CASE inner_type \in PrimitiveClasses -> PrimitiveFromSexpr(inner_type, sexpr, cursor)
      [] inner_type = "OptionalFlag" -> OptionalFlagFromSexpr(sexpr, cursor)
      [] inner_type = "OptionalSimpleFlag" -> OptionalSimpleFlagFromSexpr(sexpr, cursor)
      [] OTHER -> ObjectFromSexpr(inner_type, cursor)

\* cls.from_sexpr(sexpr, strictness): the top-level call makes the root cursor.
Decode(c, sexpr, strictness) == ObjectFromSexpr(c, RootCursor(sexpr, strictness))

(***************************************************************************)
(* to_sexpr of the wrappers and of KiCadObject.                            *)
(***************************************************************************)

\* isinstance(value, SExpressionBase)
IsSExpressionBaseValue(v) == v.k \in {"obj", "prim", "flag", "sflag"}

\* Python truth of a str or None (if token, if token_value).
Truthy(v) == v.k = "str" /\ v.s # ""

RECURSIVE ToSexpr(_)
\* A to_sexpr that tests `if not value` where the source tests
\* `value is None`: zero, the empty string and False are dropped too.
FieldSexprSkippingFalsy(value) ==
    IF IsNone(value) \/ value \in {Num(0), Str(""), Bool(FALSE)} THEN << >>
    ELSE IF IsSExpressionBaseValue(value) THEN << ToSexpr(value) >>
    ELSE IF IsList(value)
    THEN [j \in DOMAIN value.e |->
            IF IsSExpressionBaseValue(value.e[j]) THEN ToSexpr(value.e[j]) ELSE value.e[j]]
    ELSE IF value.k = "enum" THEN << Str(value.value) >>
    ELSE << value >>

\* The elements one field value adds to the result of KiCadObject.to_sexpr.
FieldSexpr(value) ==
    IF IsNone(value) THEN << >>
    ELSE IF IsSExpressionBaseValue(value) THEN << ToSexpr(value) >>
    ELSE IF IsList(value)
    THEN [j \in DOMAIN value.e |->
            IF IsSExpressionBaseValue(value.e[j]) THEN ToSexpr(value.e[j]) ELSE value.e[j]]
    ELSE IF value.k = "enum" THEN << Str(value.value) >>
    ELSE << value >>

RECURSIVE FieldsSexpr(_, _, _)
FieldsSexpr(instance, field_infos, i) ==
    IF i > Len(field_infos) THEN << >>
    ELSE FieldSexpr(instance.f[field_infos[i].name])
         \o FieldsSexpr(instance, field_infos, i + 1)

\* KiCadObject.to_sexpr
ObjectToSexpr(instance) ==
    Lst(<< Str(TokenName(instance.cls)) >>
        \o FieldsSexpr(instance, ClassifyFields(instance.cls), 1))

\* KiCadPrimitive.to_sexpr
PrimitiveToSexpr(p) ==
    IF p.token # "" THEN Lst(<< Str(p.token), p.value >>) ELSE p.value

\* OptionalFlag.to_sexpr
OptionalFlagToSexpr(fl) ==
    IF Truthy(fl.token_value) THEN Lst(<< Str(fl.token), fl.token_value >>)
    ELSE Lst(<< Str(fl.token) >>)

ToSexpr(v) ==
    CASE v.k = "obj" -> ObjectToSexpr(v)
      [] v.k = "prim" -> PrimitiveToSexpr(v)
      [] v.k = "flag" -> OptionalFlagToSexpr(v)
      [] v.k = "sflag" -> Str(v.token)
      [] OTHER -> v

(***************************************************************************)
(* Equality: the dataclass __eq__ of KiCadObject, KiCadPrimitive.__eq__,   *)
(* OptionalFlag.__eq__, OptionalSimpleFlag.__eq__, and == on lists and     *)
(* atoms.                                                                  *)
(***************************************************************************)

RECURSIVE PyEq(_, _)

\* __eq__ variant that also compares the required flags.
PrimitiveEqWithRequired(self, other) ==
    IF other.k # "prim" THEN FALSE
    ELSE /\ self.cls = other.cls
         /\ self.token = other.token
         /\ self.required = other.required
         /\ PyEq(self.value, other.value)

\* KiCadPrimitive.__eq__(self, other)
PrimitiveEq(self, other) ==
    IF other.k # "prim" THEN FALSE
    ELSE /\ self.cls = other.cls
         /\ self.token = other.token
         /\ PyEq(self.value, other.value)

\* OptionalFlag.__eq__(self, other)
OptionalFlagEq(self, other) ==
    IF other.k # "flag" THEN FALSE
    ELSE self.token = other.token /\ PyEq(self.token_value, other.token_value)

\* OptionalSimpleFlag.__eq__(self, other)
OptionalSimpleFlagEq(self, other) ==
    IF other.k # "sflag" THEN FALSE
    ELSE self.token = other.token

\* __eq__ variant that takes a None field as equal to anything.
ObjectEqSkippingNone(self, other) ==
    IF other.k # "obj" THEN FALSE
    ELSE /\ self.cls = other.cls
         /\ \A n \in DOMAIN self.f :
                IsNone(self.f[n]) \/ IsNone(other.f[n]) \/ PyEq(self.f[n], other.f[n])

\* The dataclass __eq__ of a KiCadObject subclass: the same class and equal
\* tuples of fields; anything else is NotImplemented, which == turns into
\* False.
ObjectEq(self, other) ==
    IF other.k # "obj" THEN FALSE
    ELSE /\ self.cls = other.cls
         /\ \A n \in DOMAIN self.f : PyEq(self.f[n], other.f[n])

\* a == b
PyEq(a, b) ==
    IF a.k # b.k THEN FALSE
    ELSE CASE a.k = "obj" -> ObjectEq(a, b)
           [] a.k = "prim" -> PrimitiveEq(a, b)
           [] a.k = "flag" -> OptionalFlagEq(a, b)
           [] a.k = "sflag" -> OptionalSimpleFlagEq(a, b)
           [] a.k = "list" ->
                /\ Len(a.e) = Len(b.e)
                /\ \A j \in DOMAIN a.e : PyEq(a.e[j], b.e[j])
           [] OTHER -> a = b

(***************************************************************************)
(* The pretty printer.  A text is the sequence of its pieces: a tab, a     *)
(* newline, a space, a parenthesis or the text of an atom.                 *)
(***************************************************************************)

Tabs(n) == [i \in 1..n |-> "\t"]

\* sep.join(pieces)
RECURSIVE Join(_, _)
Join(pieces, sep) ==
    IF Len(pieces) <= 1 THEN pieces
    ELSE << pieces[1], sep >> \o Join(Tail(pieces), sep)

\* value.replace("\\", "\\\\").replace('"', '\\"') on the strings of the model.
Escaped(s) ==
    CASE s = "q\"" -> "q\\\""
      [] s = "b\\" -> "b\\\\"
      [] OTHER -> s

\* KiCadObject._format_primitive_value
FormatPrimitiveValue(value) ==
    CASE value.k = "bool" -> IF value.b THEN "yes" ELSE "no"
      [] value.k = "str" ->
            IF value.s \in {"yes", "no"} THEN value.s
            ELSE "\"" \o Escaped(value.s) \o "\""
      [] OTHER -> PyStr(value)

\* token_name in ("type"): the parentheses make no tuple, so this is the
\* substring test on the string "type".
InType(token_name) ==
    token_name \in {"", "t", "y", "p", "e", "ty", "yp", "pe", "typ", "ype", "type"}

\* The non-list children of the list, formatted, and its list children.
PrimitiveValues(sexpr) ==
    LET token_name == PyStr(sexpr.e[1])
        atoms == SelectSeq(Tail(sexpr.e), LAMBDA item : ~IsList(item))
    IN  [j \in DOMAIN atoms |->
            IF InType(token_name) /\ atoms[j].k = "str" THEN atoms[j].s
            ELSE FormatPrimitiveValue(atoms[j])]
NestedLists(sexpr) == SelectSeq(Tail(sexpr.e), IsList)

\* KiCadObject._format_sexpr_kicad_style
RECURSIVE FormatSexpr(_, _)
RECURSIVE FormatNested(_, _, _)
\* The lines of the nested lists from the k-th on, each after a newline.
FormatNested(nested_lists, k, indent) ==
    IF k > Len(nested_lists) THEN << >>
    ELSE << "\n" >> \o FormatSexpr(nested_lists[k], indent + 1)
             \o FormatNested(nested_lists, k + 1, indent)

FormatSexpr(sexpr, indent) ==
    IF ~IsList(sexpr) THEN << FormatPrimitiveValue(sexpr) >>
    ELSE IF Len(sexpr.e) = 0 THEN << "(", ")" >>
    ELSE IF Len(sexpr.e) = 1
    THEN Tabs(indent) \o << "(", PyStr(sexpr.e[1]), ")" >>
    ELSE IF NestedLists(sexpr) = << >> /\ Len(sexpr.e) <= 4
    THEN Tabs(indent) \o << "(" >>
             \o Join(<< PyStr(sexpr.e[1]) >> \o PrimitiveValues(sexpr), " ")
             \o << ")" >>
    ELSE Tabs(indent) \o << "(", PyStr(sexpr.e[1]) >>
             \o (IF PrimitiveValues(sexpr) = << >> THEN << >>
                 ELSE << " " >> \o Join(PrimitiveValues(sexpr), " "))
             \o FormatNested(NestedLists(sexpr), 1, indent)
             \o << "\n" >> \o Tabs(indent) \o << ")" >>

(***************************************************************************)
(* The inputs: terms handed to from_sexpr and instances handed to          *)
(* to_sexpr.                                                               *)
(***************************************************************************)

\* Elements after the head of a term given to from_sexpr.
MaxArgs == 3
\* Elements of a List[str] field and of a List[<record>] field of an instance.
MaxStrList == 2
MaxObjList == 1

SeqsUpTo(S, n) == UNION {[1..k -> S] : k \in 0..n}

L1(a) == Lst(<< Str(a) >>)
L2(a, b) == Lst(<< Str(a), b >>)

\* What may follow the head of a term decoded as class c: atoms that convert
\* and atoms that do not (a word, the float infinity for an int), lists
\* where a scalar is expected, the class's own named children with and
\* without a payload, and strangers.
Args(c) ==
    CASE c = "Net" ->
            {Num(10), Num(15), Inf, Str("a"), L2("name", Str("a"))}
      [] c = "Size" ->
            {Num(10), Num(15), Str("a"), L2("name", Str("a"))}
      [] c \in {"FileName", "FileType", "FileChecksum"} ->
            {Str("a"), Num(10), L2("name", Str("a"))}
      [] c = "FileData" -> {Str("a"), Str("b"), Num(10)}
      [] c = "EmbeddedFile" ->
            {L2("name", Str("a")), L1("name"), L2("type", Str("b")),
             L2("data", Str("a")), L2("checksum", Str("a")), Str("a"), Str("name")}
      [] c = "EmbeddedFiles" ->
            {Lst(<< Str("file"), L2("name", Str("a")), L2("type", Str("b")) >>),
             Lst(<< Str("file"), L2("name", Str("a")) >>),
             L1("file"), Str("a"), L2("name", Str("a"))}
      [] c = "General" ->
            {L2("thickness", Num(15)), L2("thickness", Str("a")), L1("thickness"),
             L1("legacy_teardrops"), L2("legacy_teardrops", Str("yes")),
             Str("legacy_teardrops")}
      [] c = "Attr" ->
            {Str("smd"), Str("board_only"), L1("board_only"),
             L1("exclude_from_bom"), Str("exclude_from_pos_files")}
      [] c = "Samples" ->
            {L2("label", Str("a")), L2("name", Str("a")), L2("name", Num(20)),
             L2("x", Num(10)), L2("y", Str("1")), L2("x", Str("a")), L1("x"),
             L2("x", Inf), Str("a")}
      [] c = "Marked" ->
            {Str("a"), Num(15), Str("locked"), Str("hidden"), L1("locked")}
      [] OTHER -> {Str("a"), L2("name", Str("a"))}

\* Heads that are no token of the class.
OtherHeads(c) == {"wrong_token", "module", "net"} \ Range(ValidTokens(c))

\* The heads tried for class c; a class whose fields are not modelled gets
\* only heads its token check rejects.
Heads(c) == IF c \in GateOnlyClasses THEN OtherHeads(c)
            ELSE {TokenName(c)} \cup OtherHeads(c)

Terms(c) ==
    {Lst(<< >>)} \cup
    {Lst(<< Str(h) >> \o args) : h \in Heads(c), args \in SeqsUpTo(Args(c), MaxArgs)}

\* Valid values of the scalar types.
ScalarPool(t) ==
    CASE t = "int" -> {Num(0), Num(10)}
      [] t = "float" -> {Num(0), Num(15)}
      [] t = "bool" -> {Bool(TRUE), Bool(FALSE)}
      [] t \in EnumClasses -> {EnumMember(t, tag) : tag \in EnumValues(t)}
      [] OTHER -> {Str("a"), Str("b")}

RECURSIVE Instances(_)
\* Valid values of a declared field.
FieldValues(d) ==
    IF d.list
    THEN IF d.type \in ObjectClasses
         THEN {Lst(q) : q \in SeqsUpTo(Instances(d.type), MaxObjList)}
         ELSE {Lst(q) : q \in SeqsUpTo(ScalarPool(d.type), MaxStrList)}
    ELSE (IF d.nullable THEN {NoneV} ELSE {}) \cup
         (CASE d.type \in ObjectClasses -> Instances(d.type)
            [] d.type \in PrimitiveClasses ->
                 {Prim(d.type, d.dflt.token, v, d.dflt.required) :
                     v \in ScalarPool(BaseType(d.type))}
            [] d.type = "OptionalFlag" ->
                 {Flag(d.dflt.token, tv, FALSE) : tv \in {NoneV, Str("yes")}}
            [] OTHER -> ScalarPool(d.type))

RECURSIVE FieldProduct(_, _)
FieldProduct(decls, i) ==
    IF i > Len(decls) THEN {<< >>}
    ELSE {Bind(rest, decls[i].name, v) :
             rest \in FieldProduct(decls, i + 1), v \in FieldValues(decls[i])}

\* The instances of class c built from valid field values.
Instances(c) == {Obj(c, f) : f \in FieldProduct(Fields(c), 1)}

(***************************************************************************)
(* The state machine.  A run in mode "term" is cls.from_sexpr(sexpr,       *)
(* strictness) followed, when it returned, by to_sexpr() of the instance;  *)
(* a run in mode "record" is instance.to_sexpr() followed by               *)
(* cls.from_sexpr of the term it returned.                                 *)
(***************************************************************************)

VARIABLES mode, cls, strictness, sexpr, instance, result, encoded, pc

\* left == right evaluated: the two operands and the outcome.
VARIABLES left, right, equal

\* _format_sexpr_kicad_style(term, indent_level) and the text it returned.
VARIABLES term, indent_level, text

\* _classify_fields: the record types of the program and its threads, the
\* _field_info_cache attribute each type has of its own, and per thread its
\* position in the call, the type it classifies, its local field_infos and
\* the list the call returned.
VARIABLES classes, threads, cache, tpc, tcls, local, tret

\* from_file / save_to_file: the files on disk now and before the call, the
\* record type, the operation and the path of the call, its position, the
\* exception it raised, and what it has done to files so far.
VARIABLES disk, disk0, kind, op, file_path, iopc, ioerr, iolog

\* cursor.find_token(wanted): the cursor before the call, the token name, the
\* list returned and the cursor after the call.
VARIABLES probe, wanted, found, after

\* One call of a method on its own: the method, the receiver before the
\* call, the arguments, what the call handed back and the receiver after it.
VARIABLES fn, recv, argv, ret, recv1

codecVars == << mode, cls, strictness, sexpr, instance, result, encoded, pc >>
eqVars == << left, right, equal >>
formatVars == << term, indent_level, text >>
cacheVars == << classes, threads, cache, tpc, tcls, local, tret >>
ioVars == << disk, disk0, kind, op, file_path, iopc, ioerr, iolog >>
findVars == << probe, wanted, found, after >>
unitVars == << fn, recv, argv, ret, recv1 >>
flagVars == << simple_flag_token >>
vars == << codecVars, eqVars, formatVars, cacheVars, ioVars, findVars, unitVars, flagVars >>

Pending == [k |-> "pending"]

\* No comparison is under way.
EqIdle == left = Pending /\ right = Pending /\ equal = Pending

\* Nothing is being formatted.
FormatIdle == term = Pending /\ indent_level = 0 /\ text = Pending

\* No file operation is under way.
IoIdle ==
    /\ disk = << >> /\ disk0 = << >> /\ kind = "" /\ op = "" /\ file_path = << >>
    /\ iopc = "done" /\ ioerr = "" /\ iolog = {}

\* No find_token call is under way.
FindIdle == probe = Pending /\ wanted = "" /\ found = Pending /\ after = Pending

\* No method is called on its own.
UnitIdle ==
    fn = "" /\ recv = Pending /\ argv = << >> /\ ret = Pending /\ recv1 = Pending

\* No marker flag was constructed yet.
FlagIdle == simple_flag_token = ""

\* No type is classified.
CacheIdle ==
    /\ classes = {} /\ threads = {}
    /\ cache = << >> /\ tpc = << >> /\ tcls = << >> /\ local = << >> /\ tret = << >>

Init ==
    /\ EqIdle /\ FormatIdle /\ CacheIdle /\ IoIdle /\ FindIdle /\ UnitIdle /\ FlagIdle
    /\ mode \in {"term", "record"}
    /\ strictness \in ParseStrictness
    /\ result = Pending
    /\ encoded = Pending
    /\ IF mode = "term"
       THEN /\ cls \in ObjectClasses \cup GateOnlyClasses
            /\ sexpr \in Terms(cls)
            /\ instance = Pending
            /\ pc = "from_sexpr"
       ELSE /\ cls \in ObjectClasses
            /\ instance \in Instances(cls)
            /\ sexpr = Pending
            /\ pc = "to_sexpr"

\* The marker-flag fields of class c that the decode of term read from a slot
\* holding a string atom: each constructed cls(token=str(sexpr)).
FlagsConstructed(c, s, cursor) ==
    {i \in DOMAIN Fields(c) :
        /\ Fields(c)[i].type = "OptionalSimpleFlag"
        /\ \E idx \in 1..(Len(Elems(s)) - 1) :
              /\ << Fields(c)[i].name, idx >> \in cursor.claims
              /\ Elems(s)[idx + 1].k = "str"}

\* OptionalSimpleFlag.__token_name__ after the decode: the first of these
\* constructions sets it if it was empty.
FlagTokenAfter(c, s, cursor) ==
    LET made == FlagsConstructed(c, s, cursor)
    IN  IF made = {} THEN simple_flag_token
        ELSE LET i == CHOOSE j \in made : \A m \in made : j <= m
                 idx == CHOOSE n \in 1..(Len(Elems(s)) - 1) :
                            << Fields(c)[i].name, n >> \in cursor.claims
             IN  PostInit(simple_flag_token, Elems(s)[idx + 1].s)

\* cls.from_sexpr(sexpr, strictness)
FromSexprCall ==
    /\ pc = "from_sexpr"
    /\ result' = Decode(cls, sexpr, strictness)
    /\ IF mode = "term" /\ ~result'.raised
       THEN instance' = result'.val /\ pc' = "to_sexpr"
       ELSE instance' = instance /\ pc' = "done"
    /\ simple_flag_token' = FlagTokenAfter(cls, sexpr, result'.cur)
    /\ UNCHANGED << mode, cls, strictness, sexpr, encoded >>
    /\ UNCHANGED << eqVars, formatVars, cacheVars, ioVars, findVars, unitVars >>

\* instance.to_sexpr()
ToSexprCall ==
    /\ pc = "to_sexpr"
    /\ encoded' = ToSexpr(instance)
    /\ IF mode = "record"
       THEN sexpr' = encoded' /\ pc' = "from_sexpr"
       ELSE sexpr' = sexpr /\ pc' = "done"
    /\ UNCHANGED << mode, cls, strictness, instance, result >>
    /\ UNCHANGED << eqVars, formatVars, cacheVars, ioVars, findVars, unitVars, flagVars >>

Next == FromSexprCall \/ ToSexprCall

Spec == Init /\ [][Next]_vars

(***************************************************************************)
(* Equality.  A run is one evaluation of left == right.                    *)
(***************************************************************************)

\* No from_sexpr / to_sexpr run is under way.
CodecIdle ==
    /\ mode = "none" /\ cls = "" /\ strictness = STRICT /\ pc = "done"
    /\ sexpr = Pending /\ instance = Pending
    /\ result = Pending /\ encoded = Pending

\* Wrapper instances: any class, token, value and required flag.
PrimitiveInstances ==
    {Prim(c, t, v, r) : c \in PrimitiveClasses, t \in {"", "t"},
                        v \in {Num(0), Num(10), Str("a")}, r \in BOOLEAN}

\* Record instances of three classes: flat, with a wrapper and an optional
\* flag, with nested records and optional fields.
RecordInstances == Instances("Net") \cup Instances("General") \cup Instances("EmbeddedFile")

\* Values that are neither wrapper nor record.
OtherValues == {NoneV, Str("a"), Num(10), Lst(<< >>)}

InitEq ==
    /\ CodecIdle /\ FormatIdle /\ CacheIdle /\ IoIdle /\ FindIdle /\ UnitIdle /\ FlagIdle
    /\ left \in PrimitiveInstances \cup RecordInstances
    /\ right \in PrimitiveInstances \cup RecordInstances \cup OtherValues
    /\ equal = Pending

\* left == right
EqCall ==
    /\ equal = Pending
    /\ equal' = Bool(PyEq(left, right))
    /\ UNCHANGED << left, right >>
    /\ UNCHANGED << codecVars, formatVars, cacheVars, ioVars, findVars, unitVars, flagVars >>

NextEq == EqCall

SpecEq == InitEq /\ [][NextEq]_vars

(***************************************************************************)
(* Formatting runs: one call of _format_sexpr_kicad_style.                 *)
(***************************************************************************)

\* Children of the terms formatted, and the deepest indent asked for.
MaxChildren == 4
MaxIndent == 1

FormatChildren ==
    {Str("x"), Num(10), Bool(TRUE),
     Lst(<< Str("b") >>), Lst(<< Str("b"), Str("x") >>),
     Lst(<< Str("b"), Lst(<< Str("c") >>) >>), Lst(<< >>)}

FormatTerms ==
    {Lst(<< Str(h) >> \o children) :
        h \in {"a", "t", "type"}, children \in SeqsUpTo(FormatChildren, MaxChildren)}

InitFormat ==
    /\ CodecIdle /\ EqIdle /\ CacheIdle /\ IoIdle /\ FindIdle /\ UnitIdle /\ FlagIdle
    /\ term \in FormatTerms
    /\ indent_level \in 0..MaxIndent
    /\ text = Pending

\* self._format_sexpr_kicad_style(term, indent_level)
FormatCall ==
    /\ text = Pending
    /\ text' = Lst(FormatSexpr(term, indent_level))
    /\ UNCHANGED << term, indent_level >>
    /\ UNCHANGED << codecVars, eqVars, cacheVars, ioVars, findVars, unitVars, flagVars >>

NextFormat == FormatCall

SpecFormat == InitFormat /\ [][NextFormat]_vars

(***************************************************************************)
(* Properties.                                                             *)
(***************************************************************************)

\* from_sexpr has been called on a term given by the caller / on the term
\* to_sexpr produced.
DecodedTerm == mode = "term" /\ result # Pending
DecodedRecord == mode = "record" /\ result # Pending

\* The head of the term is cls's token or one of its legacy aliases.
HeadValid ==
    /\ Len(sexpr.e) > 0
    /\ sexpr.e[1].k = "str"
    /\ sexpr.e[1].s \in {TokenName(cls)} \cup Range(LegacyTokenNames(cls))

\* C1: for every instance r built from valid field values,
\* from_sexpr(r.to_sexpr(), STRICT) returns an instance equal to r.
C1_RoundTripFromRecord ==
    (DecodedRecord /\ strictness = STRICT)
        => (~result.raised /\ PyEq(result.val, instance))

\* A scalar atom in the form the conversion to type t leaves unchanged.
Canonical(atom, t) ==
    /\ ~IsList(atom)
    /\ ConvertToType(atom, t).ok
    /\ ConvertToType(atom, t).val = atom

RECURSIVE WellFormed(_, _)
\* children[j..] are, in declaration order, the children of field_infos[i..]:
\* a scalar field is one canonical atom, a scalar list any number of them, a
\* nested record one well-formed term of its class, a record list any number
\* of them, a primitive wrapper (token value), a flag (token) or
\* (token value); an optional named field may be absent.
RECURSIVE WellFormedFrom(_, _, _, _)
WellFormedFrom(field_infos, i, children, j) ==
    IF i > Len(field_infos) THEN j > Len(children)
    ELSE LET fi == field_infos[i]
             here == j <= Len(children)
             one ==
                 CASE fi.field_type = PRIMITIVE -> Canonical(children[j], fi.inner_type)
                   [] fi.inner_type \in PrimitiveClasses ->
                        /\ IsList(children[j]) /\ Len(children[j].e) = 2
                        /\ children[j].e[1] = Str(fi.token_name)
                        /\ Canonical(children[j].e[2], BaseType(fi.inner_type))
                   [] fi.inner_type = "OptionalFlag" ->
                        /\ IsList(children[j]) /\ Len(children[j].e) \in {1, 2}
                        /\ children[j].e[1] = Str(fi.token_name)
                        /\ Len(children[j].e) = 2 => Truthy(children[j].e[2])
                   [] OTHER -> WellFormed(fi.inner_type, children[j])
         IN  IF fi.is_list
             THEN \/ WellFormedFrom(field_infos, i + 1, children, j)
                  \/ here /\ one /\ WellFormedFrom(field_infos, i, children, j + 1)
             ELSE \/ here /\ one /\ WellFormedFrom(field_infos, i + 1, children, j + 1)
                  \/ /\ fi.is_optional /\ fi.token_name # ""
                     /\ WellFormedFrom(field_infos, i + 1, children, j)

WellFormed(c, t) ==
    /\ IsList(t) /\ Len(t.e) > 0
    /\ t.e[1] = Str(TokenName(c))
    /\ WellFormedFrom(ClassifyFields(c), 1, Tail(t.e), 1)

\* C2: for every well-formed term t of a record type, from_sexpr(t, STRICT)
\* returns and to_sexpr of the instance is t again, nothing added, dropped
\* or reordered.
C2_RoundTripFromTerm ==
    (DecodedTerm /\ strictness = STRICT /\ cls \in ObjectClasses /\ WellFormed(cls, sexpr))
        => /\ ~result.raised
           /\ (pc = "done" => encoded = sexpr)

\* C3: within one from_sexpr call no index of a list is bound to two fields
\* of the record decoded from that list.
C3_IndexBoundOnce ==
    (result # Pending) => ~result.cur.reuse

\* C4: a top-level from_sexpr of a term whose head is neither the class's
\* token nor a legacy alias (the empty term included) raises the token
\* mismatch under every strictness, with no index used, no field bound and
\* nothing logged.
C4_TokenGate ==
    (DecodedTerm /\ ~HeadValid)
        => /\ result.raised
           /\ result.err = "token_mismatch"
           /\ result.cur.used = {}
           /\ result.cur.claims = {}
           /\ result.cur.warnings = 0

\* C4 witness: a wrong head followed by elements, rejected under SILENT.
C4_Witness ==
    /\ DecodedTerm /\ ~HeadValid
    /\ strictness = SILENT
    /\ Len(sexpr.e) > 2
    /\ result.raised /\ result.err = "token_mismatch"

\* Some element after the head was claimed by no field.
UnclaimedElement ==
    \E idx \in 1..(Len(sexpr.e) - 1) : idx \notin result.cur.used

\* C5: under STRICT, from_sexpr raises when an element after the head is
\* left unclaimed once all fields are bound.
C5_UnusedParameterGate ==
    (DecodedTerm /\ HeadValid /\ strictness = STRICT /\ UnclaimedElement)
        => result.raised

\* The single-valued fields of class c, as classified.
SingleFields(c) == {fi \in Range(ClassifyFields(c)) : ~fi.is_list}

\* The declaration of the field called name in class c.
DeclOf(c, name) == CHOOSE d \in Range(Fields(c)) : d.name = name

\* Term t has no element for field fi: no element after the head carries
\* its token, or t ends before its position.
FieldAbsent(fi, t) ==
    IF fi.token_name # ""
    THEN \A j \in 2..Len(t.e) : ~TokenMatches(t.e[j], fi.token_name)
    ELSE fi.position_index + 1 >= Len(t.e)

\* The element of t that field fi is read from (t has one): the first one
\* carrying its token, an atom taken as a one-element list, or the element
\* at its position.
FoundElement(fi, t) ==
    IF fi.token_name # ""
    THEN LET j == CHOOSE j \in 2..Len(t.e) :
                      /\ TokenMatches(t.e[j], fi.token_name)
                      /\ \A h \in 2..(j - 1) : ~TokenMatches(t.e[h], fi.token_name)
         IN  IF IsList(t.e[j]) THEN t.e[j] ELSE Lst(<< t.e[j] >>)
    ELSE t.e[fi.position_index + 2]

\* The required single-valued fields term t has no element for.
MissingRequired(c, t) ==
    {fi \in SingleFields(c) : ~fi.is_optional /\ FieldAbsent(fi, t)}

\* The scalar fields whose element is an atom the field's type accepts /
\* does not accept.
Convertible(c, t) ==
    {fi \in SingleFields(c) :
        /\ fi.field_type = PRIMITIVE /\ ~FieldAbsent(fi, t)
        /\ ~IsList(FoundElement(fi, t))
        /\ ConvertToType(FoundElement(fi, t), fi.inner_type).ok}
Unconvertible(c, t) ==
    {fi \in SingleFields(c) :
        /\ fi.field_type = PRIMITIVE /\ ~FieldAbsent(fi, t)
        /\ ~IsList(FoundElement(fi, t))
        /\ ~ConvertToType(FoundElement(fi, t), fi.inner_type).ok}

\* Field fi of the instance v holds what its element of t decodes to: the
\* converted atom, or the value the nested type's from_sexpr returns for
\* the element (the default when that is None).
PresentBound(v, fi, t, s) ==
    IF fi.field_type = PRIMITIVE
    THEN fi \in Convertible(cls, t)
            => v.f[fi.name] = ConvertToType(FoundElement(fi, t), fi.inner_type).val
    ELSE LET el == FoundElement(fi, t)
             nested == FromSexpr(fi.inner_type, el, RootCursor(el, s))
         IN  v.f[fi.name] = IF nested.raised \/ IsNone(nested.val)
                            THEN DefaultValue(DeclOf(cls, fi.name))
                            ELSE nested.val

\* C6: when the term has no element for a required field, from_sexpr raises
\* under STRICT; under FAILSAFE and SILENT it returns an instance in which
\* every such field has its declared default and every field the term has
\* an element for is bound from it.
C6_MissingRequiredGradient ==
    (DecodedTerm /\ HeadValid /\ MissingRequired(cls, sexpr) # {})
        => /\ strictness = STRICT => result.raised
           /\ strictness # STRICT =>
                /\ ~result.raised
                /\ \A fi \in MissingRequired(cls, sexpr) :
                       result.val.f[fi.name] = DefaultValue(DeclOf(cls, fi.name))
                /\ \A fi \in SingleFields(cls) :
                       ~FieldAbsent(fi, sexpr)
                           => PresentBound(result.val, fi, sexpr, strictness)

\* Decoding element el as the nested type meets an anomaly: a wrapper with
\* no value or a value its base type rejects; a record with a required field
\* missing, a scalar its type rejects, or an anomaly further down.
RECURSIVE NestedAnomaly(_, _)
NestedAnomaly(type, el) ==
    CASE type \in PrimitiveClasses ->
            \/ ~IsList(el)
            \/ Len(el.e) < 2
            \/ ~ConvertToType(el.e[2], BaseType(type)).ok
      [] type \in ObjectClasses ->
            \/ ~IsList(el)
            \/ MissingRequired(type, el) # {}
            \/ Unconvertible(type, el) # {}
            \/ \E fi \in SingleFields(type) :
                   /\ fi.field_type = SEXPR_BASE /\ ~FieldAbsent(fi, el)
                   /\ NestedAnomaly(fi.inner_type, FoundElement(fi, el))
      [] OTHER -> FALSE

\* C7: under STRICT, an anomaly inside the element of a single-valued field
\* of a self-parsing type makes the top-level from_sexpr raise.
C7_StrictNestedAnomalyRaises ==
    (/\ DecodedTerm /\ HeadValid /\ strictness = STRICT
     /\ \E fi \in SingleFields(cls) :
            /\ fi.field_type = SEXPR_BASE /\ ~FieldAbsent(fi, sexpr)
            /\ NestedAnomaly(fi.inner_type, FoundElement(fi, sexpr)))
        => result.raised

\* C8: under FAILSAFE and SILENT a from_sexpr whose token check passes
\* returns an instance of the class, whatever the rest of the term is.
C8_LenientNeverRaises ==
    (DecodedTerm /\ HeadValid /\ strictness # STRICT)
        => /\ ~result.raised
           /\ result.val.k = "obj"
           /\ result.val.cls = cls

\* C9: when a scalar field's atom cannot be converted, STRICT raises;
\* FAILSAFE returns an instance in which that field has its default and
\* every other scalar field with a convertible atom holds the converted
\* value.
C9_ConversionFailureLocal ==
    (DecodedTerm /\ HeadValid /\ Unconvertible(cls, sexpr) # {})
        => /\ strictness = STRICT => result.raised
           /\ strictness = FAILSAFE =>
                /\ ~result.raised
                /\ \A fi \in Unconvertible(cls, sexpr) :
                       result.val.f[fi.name] = DefaultValue(DeclOf(cls, fi.name))
                /\ \A fi \in Convertible(cls, sexpr) :
                       result.val.f[fi.name]
                           = ConvertToType(FoundElement(fi, sexpr), fi.inner_type).val

\* C10: a FAILSAFE from_sexpr and a SILENT from_sexpr of the same term and
\* class agree on raising, on the exception, on the instance returned and on
\* the indices used; SILENT logs nothing.
C10_FailsafeSilentEquivalent ==
    (result # Pending /\ strictness = FAILSAFE)
        => LET silent == Decode(cls, sexpr, SILENT)
           IN  /\ silent.raised = result.raised
               /\ silent.err = result.err
               /\ silent.val = result.val
               /\ silent.cur.used = result.cur.used
               /\ silent.cur.warnings = 0

\* C10 witness: a FAILSAFE decode that logged two warnings and returned.
C10_Witness ==
    /\ DecodedTerm /\ HeadValid /\ strictness = FAILSAFE
    /\ ~result.raised
    /\ result.cur.warnings >= 2
    /\ Decode(cls, sexpr, SILENT).val = result.val

\* The list fields of class c whose elements are self-parsing with a token.
TokenListFields(c) ==
    {fi \in Range(ClassifyFields(c)) :
        fi.is_list /\ fi.field_type = SEXPR_BASE /\ fi.token_name # ""}

\* The children of term t carrying the token, in input order.
ChildrenWithToken(t, token_name) ==
    LET carries(x) == IsList(x) /\ Len(x.e) > 0 /\ PyStr(x.e[1]) = token_name
    IN  SelectSeq(Tail(t.e), carries)

\* C11: for a list field of self-parsing elements with a token, when each
\* of the N children carrying the token decodes, from_sexpr of the
\* container returns and the field is the list of exactly those N decoded
\* children in input order.
C11_ListFieldComplete ==
    (DecodedTerm /\ HeadValid)
        => \A fi \in TokenListFields(cls) :
               LET children == ChildrenWithToken(sexpr, fi.token_name)
                   decoded == [j \in DOMAIN children |->
                                  Decode(fi.inner_type, children[j], strictness)]
               IN  (\A j \in DOMAIN children : ~decoded[j].raised)
                       => /\ ~result.raised
                          /\ result.val.f[fi.name]
                                 = Lst([j \in DOMAIN children |-> decoded[j].val])

\* C11 witness: two different file children with a stranger between them,
\* both in the list, in input order.
C11_Witness ==
    /\ DecodedTerm /\ HeadValid /\ cls = "EmbeddedFiles" /\ strictness = FAILSAFE
    /\ Len(sexpr.e) = 4
    /\ ~IsList(sexpr.e[3])
    /\ Len(ChildrenWithToken(sexpr, "file")) = 2
    /\ sexpr.e[2] # sexpr.e[4]
    /\ ~result.raised
    /\ Len(result.val.f.files.e) = 2
    /\ result.val.f.files.e[1] = Decode("EmbeddedFile", sexpr.e[2], FAILSAFE).val
    /\ result.val.f.files.e[2] = Decode("EmbeddedFile", sexpr.e[4], FAILSAFE).val

\* left == right has been evaluated.
Compared == equal # Pending

\* C12: a wrapper instance equals a value exactly when the value is a
\* wrapper of the same class with the same token and the same value; the
\* required flags play no part and a non-wrapper is never equal to it.
C12_PrimitiveEquality ==
    (Compared /\ left.k = "prim")
        => (equal.b <=> /\ right.k = "prim"
                        /\ right.cls = left.cls
                        /\ right.token = left.token
                        /\ right.value = left.value)

\* C12 witness: two wrappers found equal although their required flags
\* differ.
C12_Witness ==
    /\ Compared /\ left.k = "prim" /\ right.k = "prim"
    /\ left.required # right.required
    /\ equal.b

\* v with every required flag set: what is left of a value when the flags
\* are not looked at.
RECURSIVE EraseRequired(_)
EraseRequired(v) ==
    CASE v.k = "obj" -> Obj(v.cls, [n \in DOMAIN v.f |-> EraseRequired(v.f[n])])
      [] v.k = "list" -> Lst([j \in DOMAIN v.e |-> EraseRequired(v.e[j])])
      [] v.k \in {"prim", "flag", "sflag"} -> [v EXCEPT !.required = TRUE]
      [] OTHER -> v

\* C13: a record instance equals a value exactly when the value is a
\* record of the same class and every field compares equal, nested records
\* field by field; a field that is None on one side and set on the other
\* makes them unequal, and so does a different class or a non-record.
C13_RecordEquality ==
    (Compared /\ left.k = "obj")
        => (equal.b <=> /\ right.k = "obj"
                        /\ right.cls = left.cls
                        /\ \A n \in DOMAIN left.f :
                               EraseRequired(left.f[n]) = EraseRequired(right.f[n]))

\* C13 witness: two EmbeddedFile instances that differ only in that data
\* is None in one and set in the other, found unequal.
C13_Witness ==
    /\ Compared /\ left.k = "obj" /\ right.k = "obj"
    /\ left.cls = "EmbeddedFile" /\ right.cls = "EmbeddedFile"
    /\ left.f.data = NoneV /\ right.f.data # NoneV
    /\ \A n \in DOMAIN left.f \ {"data"} : left.f[n] = right.f[n]
    /\ ~equal.b

\* _format_sexpr_kicad_style has returned.
Formatted == text # Pending

\* The lines of a text: its pieces between the newlines.
RECURSIVE SplitLines(_, _, _)
SplitLines(pieces, k, line) ==
    IF k > Len(pieces) THEN << line >>
    ELSE IF pieces[k] = "\n" THEN << line >> \o SplitLines(pieces, k + 1, << >>)
    ELSE SplitLines(pieces, k + 1, Append(line, pieces[k]))

\* The number of tabs a line starts with.
RECURSIVE LeadingTabs(_)
LeadingTabs(line) ==
    IF line = << >> \/ Head(line) # "\t" THEN 0 ELSE 1 + LeadingTabs(Tail(line))

\* C14: a one-element list is rendered (head) on one line; a head with at
\* most three non-list children and no list child on one line; any other
\* list as the head and its scalars on the first line, every list child on
\* following lines indented by indent + 1 tabs (one opening line at exactly
\* that indent per child), and a last line holding only ")" at indent.
C14_PrettyPrintLayout ==
    (Formatted /\ Len(term.e) >= 1)
        => LET lines == SplitLines(text.e, 1, << >>)
               head == PyStr(term.e[1])
               scalars == PrimitiveValues(term)
               nested == NestedLists(term)
               inner == 2..(Len(lines) - 1)
           IN  IF Len(term.e) = 1
               THEN text.e = Tabs(indent_level) \o << "(", head, ")" >>
               ELSE IF nested = << >> /\ Len(term.e) <= 4
               THEN text.e = Tabs(indent_level) \o << "(" >>
                               \o Join(<< head >> \o scalars, " ") \o << ")" >>
               ELSE /\ lines[1] = Tabs(indent_level) \o << "(" >>
                                    \o Join(<< head >> \o scalars, " ")
                    /\ lines[Len(lines)] = Tabs(indent_level) \o << ")" >>
                    /\ \A i \in inner : LeadingTabs(lines[i]) >= indent_level + 1
                    /\ Cardinality({i \in inner :
                           /\ LeadingTabs(lines[i]) = indent_level + 1
                           /\ lines[i][indent_level + 2] = "("}) = Len(nested)

(***************************************************************************)
(* Encoding runs: one call of instance.to_sexpr(), on the instances of the *)
(* decoded classes and of Shape and Footprint.                             *)
(***************************************************************************)

EncodeClasses == ObjectClasses \cup {"Shape", "Footprint"}

InitEncode ==
    /\ EqIdle /\ FormatIdle /\ CacheIdle /\ IoIdle /\ FindIdle /\ UnitIdle /\ FlagIdle
    /\ mode = "encode"
    /\ strictness = STRICT
    /\ cls \in EncodeClasses
    /\ instance \in Instances(cls)
    /\ sexpr = Pending
    /\ result = Pending
    /\ encoded = Pending
    /\ pc = "to_sexpr"

NextEncode == ToSexprCall

SpecEncode == InitEncode /\ [][NextEncode]_vars

\* instance.to_sexpr() has returned.
Encoded == mode = "encode" /\ encoded # Pending

\* What one field value contributes to the encoding, case by case.
Contribution(value) ==
    CASE value.k = "none" -> << >>
      [] value.k = "list" ->
           [j \in 1..Len(value.e) |->
               IF value.e[j].k = "obj" THEN ToSexpr(value.e[j]) ELSE value.e[j]]
      [] value.k \in {"obj", "prim", "flag", "sflag"} -> << ToSexpr(value) >>
      [] value.k = "enum" -> << Str(value.value) >>
      [] OTHER -> << value >>

RECURSIVE Contributions(_, _, _)
\* The contributions of the fields decls[i..] of r, in declaration order.
Contributions(r, decls, i) ==
    IF i > Len(decls) THEN << >>
    ELSE Contribution(r.f[decls[i].name]) \o Contributions(r, decls, i + 1)

C16_StrictnessThreaded ==
    (result # Pending) => result.cur.levels = {strictness}

\* A decode under a strictness other than the default has made two nested
\* cursors and returned.
C16_Witness ==
    /\ DecodedTerm
    /\ strictness = SILENT
    /\ ~result.raised
    /\ result.cur.entered >= 2

(***************************************************************************)
(* Classification runs: calls of cls._classify_fields() by the threads of  *)
(* the program, step by step: the hasattr test, the read of the cached     *)
(* list, the loop that appends one descriptor to the local field_infos,    *)
(* and the assignment cls._field_info_cache = field_infos.  A list is an   *)
(* object: it is told apart by the type and the thread it was built for.   *)
(***************************************************************************)

Unset == [k |-> "unset"]
FieldInfoList(c, t, infos) == [k |-> "field_infos", owner |-> c, by |-> t, infos |-> infos]

\* getattr(cls, "_field_info_cache", Unset): the attribute of the type
\* itself or the one it inherits; KiCadObject only annotates it.
RECURSIVE Lookup(_, _)
Lookup(attrs, c) ==
    IF c \notin DOMAIN attrs THEN Unset
    ELSE IF attrs[c] # Unset THEN attrs[c]
    ELSE Lookup(attrs, BaseClass(c))

\* The types classified one call after another, and the types raced on.
CacheClasses == {"Net", "NamedNet", "General", "Attr", "EmbeddedFile", "FileName"}
RaceClasses == {"Net", "NamedNet", "General", "Attr", "EmbeddedFile", "Marked"}

CacheStart(cs, ts) ==
    /\ CodecIdle /\ EqIdle /\ FormatIdle /\ IoIdle /\ FindIdle /\ UnitIdle /\ FlagIdle
    /\ classes = cs
    /\ threads = ts
    /\ cache = [c \in cs |-> Unset]
    /\ tpc = [t \in ts |-> "idle"]
    /\ tcls = [t \in ts |-> ""]
    /\ local = [t \in ts |-> << >>]
    /\ tret = [t \in ts |-> Unset]

\* One thread, calls one after another on any of the types.
InitCache == CacheStart(CacheClasses, {1})

\* Two threads and one type nobody has classified yet.
InitRace == \E c \in RaceClasses : CacheStart({c}, {1, 2})

\* cls._classify_fields() is called by thread t.
ClassifyCall(t, c) ==
    /\ tpc[t] = "idle"
    /\ tcls' = [tcls EXCEPT ![t] = c]
    /\ tpc' = [tpc EXCEPT ![t] = "hasattr"]
    /\ local' = [local EXCEPT ![t] = << >>]
    /\ tret' = [tret EXCEPT ![t] = Unset]
    /\ UNCHANGED << classes, threads, cache >>
    /\ UNCHANGED << codecVars, eqVars, formatVars, ioVars, findVars, unitVars, flagVars >>

\* if hasattr(cls, "_field_info_cache")
HasAttr(t) ==
    /\ tpc[t] = "hasattr"
    /\ tpc' = [tpc EXCEPT ![t] =
                 IF Lookup(cache, tcls[t]) # Unset THEN "read" ELSE "build"]
    /\ UNCHANGED << classes, threads, cache, tcls, local, tret >>
    /\ UNCHANGED << codecVars, eqVars, formatVars, ioVars, findVars, unitVars, flagVars >>

\* return cls._field_info_cache
ReadCache(t) ==
    /\ tpc[t] = "read"
    /\ tret' = [tret EXCEPT ![t] = Lookup(cache, tcls[t])]
    /\ tpc' = [tpc EXCEPT ![t] = "idle"]
    /\ UNCHANGED << classes, threads, cache, tcls, local >>
    /\ UNCHANGED << codecVars, eqVars, formatVars, ioVars, findVars, unitVars, flagVars >>

\* A loop that appends to the list after it was stored on the type.
AppendFieldInfoInPlace(t) ==
    /\ tpc[t] = "build"
    /\ Len(local[t]) < Len(ClassifyFields(tcls[t]))
    /\ local' = [local EXCEPT ![t] =
                   Append(@, ClassifyFields(tcls[t])[Len(local[t]) + 1])]
    /\ cache' = [cache EXCEPT ![tcls[t]] = FieldInfoList(tcls[t], t, local'[t])]
    /\ UNCHANGED << classes, threads, tpc, tcls, tret >>
    /\ UNCHANGED << codecVars, eqVars, formatVars, ioVars, findVars, unitVars, flagVars >>

\* One turn of the loop: field_infos.append(field_info).
AppendFieldInfo(t) ==
    /\ tpc[t] = "build"
    /\ Len(local[t]) < Len(ClassifyFields(tcls[t]))
    /\ local' = [local EXCEPT ![t] =
                   Append(@, ClassifyFields(tcls[t])[Len(local[t]) + 1])]
    /\ UNCHANGED << classes, threads, cache, tpc, tcls, tret >>
    /\ UNCHANGED << codecVars, eqVars, formatVars, ioVars, findVars, unitVars, flagVars >>

\* cls._field_info_cache = field_infos; return field_infos
Publish(t) ==
    /\ tpc[t] = "build"
    /\ Len(local[t]) = Len(ClassifyFields(tcls[t]))
    /\ cache' = [cache EXCEPT ![tcls[t]] = FieldInfoList(tcls[t], t, local[t])]
    /\ tret' = [tret EXCEPT ![t] = FieldInfoList(tcls[t], t, local[t])]
    /\ tpc' = [tpc EXCEPT ![t] = "idle"]
    /\ UNCHANGED << classes, threads, tcls, local >>
    /\ UNCHANGED << codecVars, eqVars, formatVars, ioVars, findVars, unitVars, flagVars >>

NextCache ==
    \/ \E t \in threads, c \in classes : ClassifyCall(t, c)
    \/ \E t \in threads : HasAttr(t)
    \/ \E t \in threads : ReadCache(t)
    \/ \E t \in threads : AppendFieldInfo(t)
    \/ \E t \in threads : Publish(t)

SpecCache == InitCache /\ [][NextCache]_vars
SpecRace == InitRace /\ [][NextCache]_vars

\* Thread t is back from _classify_fields with a list.
Classified(t) == t \in threads /\ tpc[t] = "idle" /\ tret[t] # Unset

\* C17: _classify_fields of a type returns descriptors built from that
\* type's own declared fields, a type that extends another record type
\* included and whichever of the two is classified first, and every later
\* call on the type returns the list stored on that type.
C17_CacheOwnFields ==
    \A t \in threads :
        Classified(t)
            => /\ tret[t].infos = ClassifyFields(tcls[t])
               /\ tret[t].owner = tcls[t]
               /\ cache[tcls[t]] = tret[t]

\* C18: while threads race to classify a type for the first time, the list
\* stored on the type is never a partial one, and every call returns the
\* complete list of the type.
C18_RaceSafe ==
    /\ \A c \in classes :
           cache[c] # Unset => cache[c].infos = ClassifyFields(c)
    /\ \A t \in threads :
           Classified(t) => tret[t].infos = ClassifyFields(tcls[t])

\* Both threads found no cached list, built their own and returned.
C18_Witness ==
    /\ threads = {1, 2}
    /\ Classified(1) /\ Classified(2)
    /\ tret[1].by = 1 /\ tret[2].by = 2

(***************************************************************************)
(* File entry points: from_file and save_to_file of Footprint, KicadPcb    *)
(* and KicadSymbolLib, step by step: the extension test, open and read,    *)
(* from_str; the extension test, to_sexpr_str, open and write.  A path is  *)
(* its sequence of characters.                                             *)
(***************************************************************************)

FileKinds == {"Footprint", "KicadPcb", "KicadSymbolLib"}

\* The suffix each entry point tests for.
Extension(k) ==
    CASE k = "Footprint" -> << ".", "k", "i", "c", "a", "d", "_", "m", "o", "d" >>
      [] k = "KicadPcb" -> << ".", "k", "i", "c", "a", "d", "_", "p", "c", "b" >>
      [] k = "KicadSymbolLib" -> << ".", "k", "i", "c", "a", "d", "_", "s", "y", "m" >>

\* A test `suffix in path` where the source tests path.endswith(suffix).
ContainsSuffix(path, suffix) ==
    \E i \in 1..(Len(path) - Len(suffix) + 1) :
        SubSeq(path, i, i + Len(suffix) - 1) = suffix

\* path.endswith(suffix)
EndsWith(path, suffix) ==
    /\ Len(path) >= Len(suffix)
    /\ SubSeq(path, Len(path) - Len(suffix) + 1, Len(path)) = suffix

\* The paths tried: a file name, plain or dotted, and after it one of the
\* three extensions, an extension followed by .bak, an extension without
\* its dot, .txt, or nothing.
Stems == {<< "a" >>, << "a", ".", "b" >>}
Endings ==
    {Extension(k) : k \in FileKinds}
        \cup {Extension("Footprint") \o << ".", "b", "a", "k" >>,
              Tail(Extension("KicadPcb")),
              << ".", "t", "x", "t" >>,
              << >>}
Paths == {stem \o ending : stem \in Stems, ending \in Endings}

Absent == "absent"

InitIo ==
    /\ CodecIdle /\ EqIdle /\ FormatIdle /\ CacheIdle /\ FindIdle /\ UnitIdle /\ FlagIdle
    /\ kind \in FileKinds
    /\ op \in {"from_file", "save_to_file"}
    /\ file_path \in Paths
    /\ \E existing \in {{}, {file_path}, Paths} :
           disk = [p \in Paths |-> IF p \in existing THEN "old" ELSE Absent]
    /\ disk0 = disk
    /\ iopc = "check"
    /\ ioerr = ""
    /\ iolog = {}

\* if not file_path.endswith(ext): raise ValueError(...)
CheckExtension ==
    /\ iopc = "check"
    /\ IF ~EndsWith(file_path, Extension(kind))
       THEN ioerr' = "unsupported_extension" /\ iopc' = "done"
       ELSE ioerr' = ioerr
            /\ iopc' = (IF op = "from_file" THEN "open_read" ELSE "to_sexpr_str")
    /\ UNCHANGED << disk, disk0, kind, op, file_path, iolog >>
    /\ UNCHANGED << codecVars, eqVars, formatVars, cacheVars, findVars, unitVars, flagVars >>

\* with open(file_path, "r") as f: content = f.read()
OpenRead ==
    /\ iopc = "open_read"
    /\ IF disk[file_path] = Absent
       THEN ioerr' = "file_not_found" /\ iopc' = "done"
            /\ iolog' = iolog \cup {"opened"}
       ELSE ioerr' = ioerr /\ iopc' = "from_str"
            /\ iolog' = iolog \cup {"opened", "read"}
    /\ UNCHANGED << disk, disk0, kind, op, file_path >>
    /\ UNCHANGED << codecVars, eqVars, formatVars, cacheVars, findVars, unitVars, flagVars >>

\* return cls.from_str(content, strictness): it returns or raises.
FromStr ==
    /\ iopc = "from_str"
    /\ ioerr' \in {"", "parse_error"}
    /\ iolog' = iolog \cup {"parsed"}
    /\ iopc' = "done"
    /\ UNCHANGED << disk, disk0, kind, op, file_path >>
    /\ UNCHANGED << codecVars, eqVars, formatVars, cacheVars, findVars, unitVars, flagVars >>

\* content = self.to_sexpr_str()
ToSexprStr ==
    /\ iopc = "to_sexpr_str"
    /\ iopc' = "open_write"
    /\ UNCHANGED << disk, disk0, kind, op, file_path, ioerr, iolog >>
    /\ UNCHANGED << codecVars, eqVars, formatVars, cacheVars, findVars, unitVars, flagVars >>

\* with open(file_path, "w") as f: f.write(content)
OpenWrite ==
    /\ iopc = "open_write"
    /\ disk' = [disk EXCEPT ![file_path] = "new"]
    /\ iolog' = iolog \cup {"opened",
                            IF disk[file_path] = Absent THEN "created" ELSE "overwritten"}
    /\ iopc' = "done"
    /\ UNCHANGED << disk0, kind, op, file_path, ioerr >>
    /\ UNCHANGED << codecVars, eqVars, formatVars, cacheVars, findVars, unitVars, flagVars >>

NextIo == CheckExtension \/ OpenRead \/ FromStr \/ ToSexprStr \/ OpenWrite

SpecIo == InitIo /\ [][NextIo]_vars

\* The extension of a path: what begins at its last dot, nothing when it
\* has no dot.
RECURSIVE PathExtension(_)
PathExtension(path) ==
    IF path = << >> THEN << >>
    ELSE IF \A i \in 2..Len(path) : path[i] # "."
    THEN (IF path[1] = "." THEN path ELSE << >>)
    ELSE PathExtension(Tail(path))

\* The extension of the record type's file kind.
KindExtension ==
    CASE kind = "Footprint" -> << ".", "k", "i", "c", "a", "d", "_", "m", "o", "d" >>
      [] kind = "KicadPcb" -> << ".", "k", "i", "c", "a", "d", "_", "p", "c", "b" >>
      [] kind = "KicadSymbolLib" -> << ".", "k", "i", "c", "a", "d", "_", "s", "y", "m" >>
      [] OTHER -> << >>

\* The call was made on a path with another extension than the kind's.
WrongExtension == kind \in FileKinds /\ PathExtension(file_path) # KindExtension

\* C19: from_file and save_to_file called on a path whose extension is not
\* the one of the record type raise the extension error at their first
\* step: no file has been opened, read, parsed, created or overwritten, and
\* the disk is as it was before the call.
C19_ExtensionCheckedFirst ==
    (WrongExtension /\ iopc # "check")
        => /\ iopc = "done"
           /\ ioerr = "unsupported_extension"
           /\ iolog = {}
           /\ disk = disk0

\* save_to_file was called on an existing file with the extension of
\* another kind, and has raised.
C19_Witness ==
    /\ WrongExtension
    /\ op = "save_to_file"
    /\ PathExtension(file_path) \in {Extension(k) : k \in FileKinds}
    /\ disk0[file_path] = "old"
    /\ iopc = "done"

(***************************************************************************)
(* find_token runs: one call of cursor.find_token(wanted) on a cursor      *)
(* whose tracker may already hold used indices.                            *)
(***************************************************************************)

\* The children of the terms searched: atoms and lists that carry one of
\* the names, and ones that do not.
FindChildren ==
    {Str("x"), Str("y"), Num(10), L1("x"), L2("x", Num(10)), L1("y"), Lst(<< >>)}
FindNames == {"x", "y", "z"}
FindTerms ==
    {Lst(<< >>)} \cup
    {Lst(<< Str("h") >> \o q) : q \in SeqsUpTo(FindChildren, MaxArgs)}

InitFind ==
    /\ CodecIdle /\ EqIdle /\ FormatIdle /\ CacheIdle /\ IoIdle /\ UnitIdle /\ FlagIdle
    /\ \E t \in FindTerms, s \in ParseStrictness, u \in SUBSET {1, MaxArgs} :
           probe = [RootCursor(t, s) EXCEPT !.used = u]
    /\ wanted \in FindNames
    /\ found = Pending
    /\ after = Pending

\* found = probe.find_token(wanted)
FindTokenCall ==
    /\ found = Pending
    /\ found' = FindToken(probe, wanted, wanted).val
    /\ after' = FindToken(probe, wanted, wanted).cur
    /\ UNCHANGED << probe, wanted >>
    /\ UNCHANGED << codecVars, eqVars, formatVars, cacheVars, ioVars, unitVars, flagVars >>

NextFind == FindTokenCall

SpecFind == InitFind /\ [][NextFind]_vars

\* The element at index i (the head has index 0) carries the name: it is a
\* list headed by it or the bare atom itself.
Carries(i) ==
    LET item == probe.sexpr.e[i + 1]
    IN  \/ item.k = "list" /\ item.e # << >> /\ item.e[1] = Str(wanted)
        \/ item = Str(wanted)

\* C20: find_token returns the first element after the head that is a list
\* headed by the name or the bare atom equal to the name, the atom wrapped
\* in a one-element list, and adds exactly that index to the used set; with
\* no such element it returns the empty list and the used set is unchanged.
C20_FindTokenFirstMatch ==
    (found # Pending)
        => LET hits == {i \in 1..(Len(probe.sexpr.e) - 1) : Carries(i)}
           IN  IF hits = {}
               THEN found = Lst(<< >>) /\ after.used = probe.used
               ELSE \E i \in hits :
                       /\ \A j \in hits : i <= j
                       /\ found = (IF probe.sexpr.e[i + 1].k = "list"
                                   THEN probe.sexpr.e[i + 1]
                                   ELSE Lst(<< probe.sexpr.e[i + 1] >>))
                       /\ after.used = probe.used \cup {i}

\* The name was found as a bare atom at the second index, after an element
\* that does not carry it and before one that does, on a cursor with another
\* index already used.
C20_Witness ==
    /\ found = Lst(<< Str(wanted) >>)
    /\ Len(probe.sexpr.e) = 4
    /\ ~Carries(1) /\ Carries(2) /\ Carries(3)
    /\ probe.used = {MaxArgs}
    /\ after.used = {2, MaxArgs}

(***************************************************************************)
(* Scalar parser runs: one call of cursor.parse_int / parse_float /        *)
(* parse_str / parse_bool / parse_enum(index, field_name, required) on a   *)
(* cursor whose tracker may already hold a used index.                     *)
(***************************************************************************)

\* The elements after the head of the terms parsed.
MaxScalars == 2
ScalarElements ==
    {Num(10), Num(15), Inf, Str("a"), Str("1"), Str("circle"), Str("Rect"), L1("a")}
ScalarTerms ==
    {Lst(<< Str("h") >> \o q) : q \in SeqsUpTo(ScalarElements, MaxScalars)}
ScalarParsers == {"parse_int", "parse_float", "parse_str", "parse_bool", "parse_enum"}

InitParse ==
    /\ CodecIdle /\ EqIdle /\ FormatIdle /\ CacheIdle /\ IoIdle /\ FindIdle /\ FlagIdle
    /\ fn \in ScalarParsers
    /\ \E t \in ScalarTerms, s \in ParseStrictness, u \in SUBSET {MaxScalars + 1} :
           recv = [RootCursor(t, s) EXCEPT !.used = u]
    /\ \E index \in 1..(MaxScalars + 1), required \in BOOLEAN :
           argv = [index |-> index, required |-> required]
    /\ ret = Pending
    /\ recv1 = Pending

\* cursor.parse_<kind>(index, field_name, required)
ParseScalar(cursor, parser, index, required) ==
    CASE parser = "parse_int" -> ParseInt(cursor, index, "field", required)
      [] parser = "parse_float" -> ParseFloat(cursor, index, "field", required)
      [] parser = "parse_bool" -> ParseBool(cursor, index, "field", required)
      [] parser = "parse_enum" -> ParseEnum(cursor, index, "field", "PadShape", required)
      [] OTHER -> ParseStr(cursor, index, "field", required)

ParseCall ==
    /\ fn \in ScalarParsers
    /\ ret = Pending
    /\ ret' = [raised |-> ParseScalar(recv, fn, argv.index, argv.required).raised,
               val |-> ParseScalar(recv, fn, argv.index, argv.required).val]
    /\ recv1' = ParseScalar(recv, fn, argv.index, argv.required).cur
    /\ UNCHANGED << fn, recv, argv >>
    /\ UNCHANGED << codecVars, eqVars, formatVars, cacheVars, ioVars, findVars, flagVars >>

NextParse == ParseCall

SpecParse == InitParse /\ [][NextParse]_vars

\* A scalar parser has been called / has returned a converted value.
Parsed == fn \in ScalarParsers /\ ret # Pending
ParsedValue == Parsed /\ ~ret.raised /\ ret.val # NoneV

\* C21: a scalar parser adds its index to the used set exactly when it
\* returns a converted value; when the element is missing, is a nested list
\* or fails conversion, the used set is as before the call.
C21_MarkedOnSuccessOnly ==
    Parsed
        => IF ParsedValue
           THEN recv1.used = recv.used \cup {argv.index}
           ELSE recv1.used = recv.used

(***************************************************************************)
(* List runs: from_sexpr(sexpr, strictness) of the two record types with a *)
(* self-parsing list field: EmbeddedFiles, whose elements carry the token  *)
(* file, and Samples, on terms whose children are lists KiCadInt decodes,  *)
(* lists it does not (a word, no payload, the float infinity), the named   *)
(* children of the other fields, and an atom.                              *)
(***************************************************************************)

InitList ==
    /\ EqIdle /\ FormatIdle /\ CacheIdle /\ IoIdle /\ FindIdle /\ UnitIdle /\ FlagIdle
    /\ mode = "term"
    /\ cls \in {"Samples", "EmbeddedFiles"}
    /\ strictness \in ParseStrictness
    /\ sexpr \in Terms(cls)
    /\ instance = Pending
    /\ result = Pending
    /\ encoded = Pending
    /\ pc = "from_sexpr"

NextList == FromSexprCall \/ ToSexprCall

SpecList == InitList /\ [][NextList]_vars

\* Samples.from_sexpr has been called.
DecodedSamples == mode = "term" /\ cls = "Samples" /\ result # Pending /\ HeadValid

\* KiCadInt.from_sexpr decodes the element: a list with a payload int() reads.
ElementDecodes(item) == IsList(item) /\ Len(item.e) >= 2 /\ PyInt(item.e[2]).ok

\* The indices of the nested lists the field declared before the list field
\* has not taken, and those among them whose element decodes.
Visited ==
    {i \in 1..(Len(sexpr.e) - 1) :
        IsList(sexpr.e[i + 1]) /\ << "label", i >> \notin result.cur.claims}
Kept == {i \in Visited : ElementDecodes(sexpr.e[i + 1])}

\* The elements at the indices of S, decoded, in input order.
RECURSIVE DecodedElements(_, _)
DecodedElements(S, i) ==
    IF i > Len(sexpr.e) - 1 THEN << >>
    ELSE (IF i \in S
          THEN << Prim("KiCadInt", PyStr(sexpr.e[i + 1].e[1]),
                       PyInt(sexpr.e[i + 1].e[2]).val, TRUE) >>
          ELSE << >>)
         \o DecodedElements(S, i + 1)

\* C22: a list field whose element type has no token visits the nested
\* lists not yet used, in input order; the elements that decode are marked
\* used and appended, an element that does not decode is skipped, not
\* marked by the list field, and does not end the decode.
C22_AnyListSkipsFailures ==
    DecodedSamples
        => /\ result.raised => result.err # "OverflowError"
           /\ ~result.raised
                 => /\ {i \in 1..(Len(sexpr.e) - 1) :
                           << "values", i >> \in result.cur.claims} = Kept
                    /\ result.val.f["values"] = Lst(DecodedElements(Kept, 1))

\* An element of the list field of the record type decoded does not decode:
\* a file child EmbeddedFile.from_sexpr raises on under STRICT, a nested
\* list of Samples that KiCadInt.from_sexpr gives no value for.
ElementFailure ==
    IF cls = "Samples"
    THEN \E i \in Visited : ~ElementDecodes(sexpr.e[i + 1])
    ELSE \E i \in 2..Len(sexpr.e) :
            /\ TokenMatches(sexpr.e[i], "file") /\ IsList(sexpr.e[i])
            /\ Decode("EmbeddedFile", sexpr.e[i], STRICT).raised

\* C23: under STRICT, when an element of a self-parsing list field, with a
\* fixed token or without, fails to decode, the top-level decode raises;
\* it does not return an instance whose list lacks the element.
C23_StrictListElementAborts ==
    (result # Pending /\ mode = "term" /\ HeadValid /\ strictness = STRICT
        /\ cls \in {"Samples", "EmbeddedFiles"} /\ ElementFailure)
        => result.raised

\* The receiver with the element at the index of the call replaced by item.
WithElement(item) ==
    [recv EXCEPT !.sexpr = Lst([recv.sexpr.e EXCEPT ![argv.index + 1] = item])]

\* The call found a nested list at its index.
FoundNestedList ==
    /\ Parsed
    /\ fn \in {"parse_int", "parse_float", "parse_enum"}
    /\ argv.index < Len(recv.sexpr.e)
    /\ IsList(recv.sexpr.e[argv.index + 1])

\* C24: a nested list where a scalar is expected has the outcome of a
\* conversion failure at the same slot, for the same parser, the same
\* required flag and the same strictness: both raise under STRICT, both
\* return no value under FAILSAFE and SILENT.
C24_ListLikeConversionFailure ==
    FoundNestedList
        => LET failure == ParseScalar(WithElement(Str("a")), fn, argv.index, argv.required)
           IN  /\ ret.raised = failure.raised
               /\ ret.val = failure.val
               /\ ret.raised = (recv.strictness = STRICT)

(***************************************************************************)
(* Position assignment of the classifier.                                  *)
(***************************************************************************)

\* The declared fields of c that are classified: those whose name does not
\* start with an underscore, in declaration order.
PublicFields(c) ==
    SelectSeq(Fields(c), LAMBDA d : ~StartsWithUnderscore(d.name))

\* C25: the classifier walks the declared fields in order, leaves out the
\* fields whose name starts with an underscore, and numbers the remaining
\* fields that are no bare marker flags 0, 1, 2, ... without gaps or
\* duplicates; a marker-flag field advances no counter.
C25_PositionsDense ==
    \A t \in threads :
        Classified(t) =>
            LET infos == tret[t].infos
                decls == PublicFields(tcls[t])
                Marker(k) == decls[k].type = "OptionalSimpleFlag"
            IN  /\ Len(infos) = Len(decls)
                /\ \A k \in DOMAIN decls :
                       /\ infos[k].name = decls[k].name
                       /\ ~Marker(k) =>
                             infos[k].position_index =
                                 Cardinality({j \in 1..(k - 1) : ~Marker(j)})

\* A type with marker-flag fields and a private field between its scalar
\* fields was classified: the scalar after the flags has position 1.
C25_Witness ==
    \E t \in threads :
        /\ Classified(t) /\ tcls[t] = "Marked"
        /\ \E k \in DOMAIN tret[t].infos :
               tret[t].infos[k].name = "size" /\ tret[t].infos[k].position_index = 1

(***************************************************************************)
(* Marker-flag fields: a process that may construct marker flags of its    *)
(* own before it decodes a record type with marker-flag fields for the     *)
(* first time.                                                             *)
(***************************************************************************)

\* The tokens of the flags constructed before the decode.
FlagTokens == {"oval", "locked"}

InitFlag ==
    /\ EqIdle /\ FormatIdle /\ CacheIdle /\ IoIdle /\ FindIdle /\ UnitIdle /\ FlagIdle
    /\ mode = "term"
    /\ cls = "Marked"
    /\ strictness \in ParseStrictness
    /\ sexpr \in Terms(cls)
    /\ instance = Pending
    /\ result = Pending
    /\ encoded = Pending
    /\ pc = "from_sexpr"

\* OptionalSimpleFlag(t), somewhere else in the process.
ConstructFlag(t) ==
    /\ pc = "from_sexpr"
    /\ simple_flag_token' = PostInit(simple_flag_token, t)
    /\ UNCHANGED codecVars
    /\ UNCHANGED << eqVars, formatVars, cacheVars, ioVars, findVars, unitVars >>

NextFlag ==
    \/ \E t \in FlagTokens : ConstructFlag(t)
    \/ FromSexprCall
    \/ ToSexprCall

SpecFlag == InitFlag /\ [][NextFlag]_vars

DecodedMarked == mode = "term" /\ cls = "Marked" /\ result # Pending /\ ~result.raised

\* An atom equal to name occurs among the elements after the head.
AtomPresent(name) ==
    \E i \in 2..Len(Elems(sexpr)) : Elems(sexpr)[i] = Str(name)

\* C26: a bare marker-flag field is decoded solely by the presence of an
\* atom equal to the field's own token among the elements after the head:
\* the field holds its flag when the atom occurs there and is absent when it
\* does not, whatever marker flags were constructed before.
C26_MarkerFlagByOwnToken ==
    DecodedMarked =>
        \A name \in {"locked", "hidden"} :
            result.val.f[name] =
                IF AtomPresent(name) THEN SFlag(name, FALSE) ELSE NoneV

(***************************************************************************)
(* Quoting and child order of the pretty printer.                          *)
(***************************************************************************)

\* C27: only under the head token type is a string child printed without
\* quotes: under every other head a string child other than yes and no
\* appears in the text double-quoted.
C27_UnquotedOnlyUnderType ==
    (Formatted /\ Len(term.e) >= 1 /\ PyStr(term.e[1]) # "type")
        => \A i \in 2..Len(term.e) :
               (term.e[i].k = "str" /\ term.e[i].s \notin {"yes", "no"})
                   => /\ ("\"" \o Escaped(term.e[i].s) \o "\"") \in Range(text.e)
                      /\ term.e[i].s \notin Range(text.e)

\* Re-tokenizing: the kinds (atom or list) of the children of the outermost
\* list of a text, in the order they appear.  depth counts the open
\* parentheses and head tells whether the head token is still to come.
RECURSIVE TextChildKinds(_, _, _, _)
TextChildKinds(pieces, k, depth, head) ==
    IF k > Len(pieces) THEN << >>
    ELSE IF pieces[k] \in {"\t", "\n", " "}
    THEN TextChildKinds(pieces, k + 1, depth, head)
    ELSE IF pieces[k] = "("
    THEN (IF depth = 1 THEN << "list" >> ELSE << >>)
             \o TextChildKinds(pieces, k + 1, depth + 1, head)
    ELSE IF pieces[k] = ")"
    THEN TextChildKinds(pieces, k + 1, depth - 1, head)
    ELSE IF depth = 1 /\ head
    THEN TextChildKinds(pieces, k + 1, depth, FALSE)
    ELSE (IF depth = 1 THEN << "atom" >> ELSE << >>)
             \o TextChildKinds(pieces, k + 1, depth, head)

\* The kinds of the children of the term, in order.
TermChildKinds ==
    [i \in 1..(Len(term.e) - 1) |-> IF IsList(term.e[i + 1]) THEN "list" ELSE "atom"]

\* C28: the atoms and nested lists of a list appear in the text in the order
\* they have in the term, a scalar that follows a nested list included.
C28_ChildOrderKept ==
    (Formatted /\ Len(term.e) >= 1)
        => TextChildKinds(text.e, 1, 0, TRUE) = TermChildKinds

(***************************************************************************)
(* Calls of a primitive wrapper: instance(new_value).                      *)
(***************************************************************************)

\* The values a wrapper is called with.
NewValues ==
    {Num(10), Num(15), Inf, Str("a"), Str("1"), Str("1.5"), NoneV, L1("a")}

InitUnit ==
    /\ CodecIdle /\ EqIdle /\ FormatIdle /\ CacheIdle /\ IoIdle /\ FindIdle /\ FlagIdle
    /\ fn = "__call__"
    /\ recv \in PrimitiveInstances
    /\ \E v \in NewValues : argv = [new_value |-> v]
    /\ ret = Pending
    /\ recv1 = Pending

\* A call that stores the value it was given as it is.
PrimitiveCallUnconverted(self, new_value) ==
    [raised |-> FALSE, exc |-> "", returned |-> "self",
     self |-> [self EXCEPT !.value = new_value]]

\* KiCadPrimitive.__call__: what the call hands back (self, or nothing when
\* it raises) and the instance after it.
PrimitiveCall(self, new_value) ==
    LET converted == ConvertToType(new_value, BaseType(self.cls))
    IN  IF converted.ok
        THEN [raised |-> FALSE, exc |-> "", returned |-> "self",
              self |-> [self EXCEPT !.value = converted.val]]
        ELSE [raised |-> TRUE, exc |-> converted.exc, returned |-> "",
              self |-> self]

\* recv(new_value)
UnitCall ==
    /\ fn = "__call__"
    /\ ret = Pending
    /\ ret' = [raised |-> PrimitiveCall(recv, argv.new_value).raised,
               val |-> PrimitiveCall(recv, argv.new_value).returned]
    /\ recv1' = PrimitiveCall(recv, argv.new_value).self
    /\ UNCHANGED << fn, recv, argv >>
    /\ UNCHANGED << codecVars, eqVars, formatVars, cacheVars, ioVars, findVars, flagVars >>

NextUnit == UnitCall

SpecUnit == InitUnit /\ [][NextUnit]_vars

Called == fn = "__call__" /\ ret # Pending

\* The value is one of the wrapper's base type.
OfBaseType(c, v) ==
    CASE BaseType(c) = "int" -> v.k = "num" /\ v.n % 10 = 0
      [] BaseType(c) = "float" -> v.k \in {"num", "inf"}
      [] OTHER -> v.k = "str"

\* C29: calling a primitive wrapper with a new value stores the value
\* converted to the wrapper's base type and returns the same instance, token
\* and required unchanged; when the conversion fails the call raises and the
\* stored value is the one before the call.
C29_CallConvertsAndReturnsSelf ==
    Called =>
        IF ConvertToType(argv.new_value, BaseType(recv.cls)).ok
        THEN /\ ~ret.raised /\ ret.val = "self"
             /\ recv1.value = ConvertToType(argv.new_value, BaseType(recv.cls)).val
             /\ OfBaseType(recv.cls, recv1.value)
             /\ recv1.cls = recv.cls
             /\ recv1.token = recv.token /\ recv1.required = recv.required
        ELSE ret.raised /\ recv1 = recv

\* A KiCadInt holding 0 was called with the string "1" and now holds 1, and
\* its token and required are as before.
C29_Witness ==
    /\ Called /\ ~ret.raised
    /\ recv.cls = "KiCadInt" /\ recv.value = Num(0) /\ argv.new_value = Str("1")
    /\ recv1.value = Num(10) /\ recv1.token = recv.token

(***************************************************************************)
(* Strictness and the decoded instance.                                    *)
(***************************************************************************)

\* from_sexpr under STRICT has returned an instance.
DecodedStrict == result # Pending /\ ~result.raised /\ strictness = STRICT

\* C30: strictness only decides between failing and substituting: when
\* decode under STRICT returns an instance, decode of the same term under
\* FAILSAFE and under SILENT returns an equal instance.
C30_LenientAgreesWithStrict ==
    DecodedStrict =>
        \A s \in {FAILSAFE, SILENT} :
            /\ ~Decode(cls, sexpr, s).raised
            /\ PyEq(Decode(cls, sexpr, s).val, result.val)

\* Under STRICT a Samples term was decoded to an instance although one of
\* the elements of its list field did not decode: that element was dropped
\* and another one kept.
C30_Witness ==
    /\ DecodedStrict /\ mode = "term" /\ cls = "Samples"
    /\ ElementFailure /\ Kept # {}
    /\ Len(result.val.f.values.e) = Cardinality(Kept)

====
